---- MODULE Spec2Model ----
(***************************************************************************)
(* A model of the mypy daemon server (mypy/dmypy_server.py): the serve     *)
(* loop, the command dispatcher and the command handlers, together with    *)
(* the collaborators the handlers call (source discovery, the file-system  *)
(* watcher, the build and the fine-grained update).                        *)
(***************************************************************************)
EXTENDS Integers, Sequences, FiniteSets, TLC

(* ------------------------------ bounds -------------------------------- *)

\* Requests the server reads before the model stops offering new ones.
MaxRequests == 2
\* File-system / plugin changes made by the environment in one run.
MaxFsEvents == 1
\* Longest list of paths a request carries (files, remove, update).
MaxFiles == 1

(* --------------------------- generic helpers --------------------------- *)

Range(s) == {s[i] : i \in 1..Len(s)}

SeqsUpTo(S, n) == UNION {[1..k -> S] : k \in 0..n}

RECURSIVE MapFilter(_, _, _)
\* [F(x) for x in s if P(x)], F and P given as functions over the elements.
MapFilter(s, F, P) ==
    IF s = <<>> THEN <<>>
    ELSE (IF P[Head(s)] THEN <<F[Head(s)]>> ELSE <<>>) \o MapFilter(Tail(s), F, P)

(* ----------------------------- the world ------------------------------- *)

Paths == {"a.py", "b.py"}
NoPath == "None"
Contents == {"ok", "err", "blocker", "missing"}

\* The module id source discovery gives a path: it depends on whether the
\* directory holds an __init__ file (pkg).
ModuleOf(p, pkg) ==
    IF p = "a.py" THEN (IF pkg THEN "pkg.a" ELSE "a")
    ELSE (IF pkg THEN "pkg.b" ELSE "b")

\* BuildSource(path, module, text)
BuildSource(path, module) == [path |-> path, module |-> module]

\* The path a module id resolves to on disk (for a source given by module).
PathOfModule(m, disk) ==
    LET hits == {p \in Paths : ModuleOf(p, disk[p].pkg) = m /\ disk[p].content # "missing"}
    IN IF hits = {} THEN NoPath ELSE CHOOSE p \in hits : TRUE

\* The file a source is read from: its path, or the one its module id
\* resolves to.
SourcePath(src, disk) ==
    IF src.path # NoPath THEN src.path ELSE PathOfModule(src.module, disk)

\* What a source's file holds on disk.
ContentOf(src, disk) ==
    LET p == SourcePath(src, disk)
    IN IF p = NoPath THEN "missing" ELSE disk[p].content

(* --------------------------- output lines ------------------------------ *)

Line(tag, path, ne, nf, ns) ==
    [tag |-> tag, path |-> path, n_errors |-> ne, n_files |-> nf, n_sources |-> ns,
     color |-> FALSE, fit |-> FALSE]

Diag(path) == Line("error", path, 0, 0, 0)

\* FancyFormatter.fit_in_terminal / colorize / format_error / format_success
fit_in_terminal(messages) == [i \in 1..Len(messages) |-> [messages[i] EXCEPT !.fit = TRUE]]
colorize(m) == [m EXCEPT !.color = TRUE]
format_error(n_errors, n_files, n_sources) == Line("found", "", n_errors, n_files, n_sources)
format_success(n_sources) == Line("success", "", 0, 0, n_sources)

\* mypy.util.count_stats: (number of error lines, number of files with errors)
count_stats(messages) ==
    LET errs == {i \in 1..Len(messages) : messages[i].tag = "error"}
    IN [n_errors |-> Cardinality(errs), n_files |-> Cardinality({messages[i].path : i \in errs})]

\* Server.pretty_messages
pretty_messages(messages, n_sources, is_tty, opts) ==
    LET use_color == opts.color_output /\ is_tty
        fit_width == opts.pretty /\ is_tty
        m1 == IF fit_width THEN fit_in_terminal(messages) ELSE messages
        st == count_stats(m1)
        summary == IF m1 # <<>>
                   THEN (IF st.n_errors > 0
                         THEN <<format_error(st.n_errors, st.n_files, n_sources)>>
                         ELSE <<>>)
                   ELSE <<format_success(n_sources)>>
        m2 == IF opts.error_summary THEN m1 \o summary ELSE m1
    IN IF use_color THEN [i \in 1..Len(m2) |-> colorize(m2[i])] ELSE m2

(* -------------------------- source discovery --------------------------- *)

\* mypy.find_sources.create_source_list: a BuildSource per file, or
\* InvalidSourceList for the first file that cannot be found.
create_source_list(files, disk) ==
    LET bad == {i \in 1..Len(files) : disk[files[i]].content = "missing"}
    IN IF bad # {}
       THEN [ok |-> FALSE, sources |-> <<>>,
             err |-> <<Line("invalid", files[CHOOSE i \in bad : \A j \in bad : i <= j], 0, 0, 0)>>]
       ELSE [ok |-> TRUE,
             sources |-> [i \in 1..Len(files) |->
                            BuildSource(files[i], ModuleOf(files[i], disk[files[i]].pkg))],
             err |-> <<>>]

(* ------------------------- file-system watcher ------------------------- *)

NoData == "none"

\* FileSystemWatcher(fscache)
FileSystemWatcher == [defined |-> TRUE, paths |-> {}, data |-> [p \in Paths |-> NoData]]
NoWatcher == [defined |-> FALSE, paths |-> {}, data |-> [p \in Paths |-> NoData]]

Stat(p, disk) == IF disk[p].content = "missing" THEN NoData ELSE disk[p].content

\* add_watched_paths: track the paths, recording the current state of the new ones.
add_watched_paths(w, paths, disk) ==
    [w EXCEPT !.paths = w.paths \cup paths,
              !.data = [p \in Paths |-> IF p \in paths \ w.paths THEN Stat(p, disk)
                                          ELSE w.data[p]]]

\* set_file_data(path, data)
set_file_data(w, metas) ==
    [w EXCEPT !.data = [p \in Paths |-> IF metas[p] # NoData THEN metas[p] ELSE w.data[p]]]

\* find_changed: stat every tracked path; those that differ from the snapshot.
watcher_find_changed(w, disk) ==
    [changed |-> {p \in w.paths : Stat(p, disk) # w.data[p]},
     w |-> [w EXCEPT !.data = [p \in Paths |-> IF p \in w.paths THEN Stat(p, disk)
                                                 ELSE w.data[p]]]]

\* update_changed(remove, update): take the caller's lists as the changes.
watcher_update_changed(w, remove, update, disk) ==
    [changed |-> Range(remove) \cup Range(update),
     w |-> [w EXCEPT !.paths = (w.paths \ Range(remove)) \cup Range(update),
                     !.data = [p \in Paths |->
                                 IF p \in Range(update) THEN Stat(p, disk)
                                 ELSE IF p \in Range(remove) THEN NoData
                                 ELSE w.data[p]]]]

(* ------------------------ build and update ----------------------------- *)

\* A module of the build graph (mypy.build.State): id, path, the content it
\* was loaded from, and the cache meta it was loaded with (NoData: none).
State(id, path, content, meta) == [id |-> id, path |-> path, content |-> content, meta |-> meta]

RECURSIVE load_graph(_, _, _, _)
\* One State per source, in source order, a module id loaded once.
load_graph(sources, disk, cached, graph) ==
    IF sources = <<>> THEN graph
    ELSE LET s == Head(sources)
             p == SourcePath(s, disk)
             st == IF cached THEN State(s.module, p, "ok", "ok")
                   ELSE State(s.module, p, ContentOf(s, disk), NoData)
         IN load_graph(Tail(sources), disk, cached,
                       IF \E i \in 1..Len(graph) : graph[i].id = s.module
                       THEN graph ELSE Append(graph, st))

\* The diagnostics of a graph: one per module whose content has an error.
Messages(graph) ==
    MapFilter(graph, [st \in Range(graph) |-> Diag(st.path)],
                     [st \in Range(graph) |-> st.content \in {"err", "blocker"}])

\* mypy.build.build(sources, options, fscache): a BuildResult, or CompileError
\* (a source that cannot be found: on stderr; a blocking error: on stdout).
build(sources, opts, disk) ==
    LET lost == {i \in 1..Len(sources) : ContentOf(sources[i], disk) = "missing"}
        blocked == {i \in 1..Len(sources) : ContentOf(sources[i], disk) = "blocker"}
        cached == opts.use_fine_grained_cache
        first(S) == CHOOSE i \in S : \A j \in S : i <= j
        graph == load_graph(sources, disk, cached, <<>>)
    IN IF lost # {}
       THEN [compile_error |-> TRUE, use_stdout |-> FALSE, graph |-> <<>>, used_cache |-> FALSE,
             messages |-> <<Line("cantfind", sources[first(lost)].module, 0, 0, 0)>>]
       ELSE IF blocked # {} /\ ~cached
       THEN [compile_error |-> TRUE, use_stdout |-> TRUE, graph |-> <<>>, used_cache |-> FALSE,
             messages |-> <<Diag(SourcePath(sources[first(blocked)], disk))>>]
       ELSE [compile_error |-> FALSE, use_stdout |-> TRUE, graph |-> graph, used_cache |-> cached,
             messages |-> IF cached THEN <<>> ELSE Messages(graph)]

\* FineGrainedBuildManager(result)
NoManager == [present |-> FALSE, graph |-> <<>>, plugins_snapshot |-> 0]
FineGrainedBuildManager(result, plugins_now) ==
    [present |-> TRUE, graph |-> result.graph, plugins_snapshot |-> plugins_now]

RECURSIVE reload(_, _, _)
\* Reload each changed (module, path) from disk: replace its State, or add one.
reload(graph, changed, disk) ==
    IF changed = <<>> THEN graph
    ELSE LET c == Head(changed)
             st == State(c.module, c.path, disk[c.path].content, NoData)
             g1 == IF \E i \in 1..Len(graph) : graph[i].id = c.module
                   THEN [i \in 1..Len(graph) |-> IF graph[i].id = c.module THEN st ELSE graph[i]]
                   ELSE Append(graph, st)
         IN reload(g1, Tail(changed), disk)

\* FineGrainedBuildManager.update(changed, removed): the new graph and its messages.
update(mgr, changed, removed, disk) ==
    LET gone == {removed[i].module : i \in 1..Len(removed)}
        g1 == SelectSeq(mgr.graph, LAMBDA st : st.id \notin gone)
        g2 == reload(g1, changed, disk)
        g3 == SelectSeq(g2, LAMBDA st : st.content # "missing")
    IN [mgr |-> [mgr EXCEPT !.graph = g3], messages |-> Messages(g3)]

(* ------------------------ responses and outcomes ----------------------- *)

NoStatus == -1
\* mypy.version.__version__
Version == "v1"

\* A response dict: the keys it holds and their values ("" / <<>> / NoStatus
\* for a key it does not hold).
Response(keys, error, out, err, status, restart) ==
    [keys |-> keys, error |-> error, out |-> out, err |-> err, status |-> status,
     restart |-> restart, platform |-> "", python_version |-> <<>>]

EmptyResponse == Response({}, <<>>, <<>>, <<>>, NoStatus, "")
ErrorResponse(error) == Response({"error"}, error, <<>>, <<>>, NoStatus, "")
ResultResponse(out, err, status) == Response({"out", "err", "status"}, <<>>, out, err, status, "")
RestartResponse(why) == Response({"restart"}, <<>>, <<>>, <<>>, NoStatus, why)

\* What a handler leaves behind: the response it returned (or the exception
\* that escaped it), the server's attributes, and whether it unlinked the
\* status file.
Outcome(exc, r, S, unlinked) == [exc |-> exc, resp |-> r, S |-> S, unlinked |-> unlinked]
Return(r, S) == Outcome(FALSE, r, S, FALSE)
Raise(S) == Outcome(TRUE, EmptyResponse, S, FALSE)

\* Optional[List[str]]
None == [given |-> FALSE, list |-> <<>>]
Some(l) == [given |-> TRUE, list |-> l]

(* ------------------------------ Server --------------------------------- *)

\* Server._response_metadata
_response_metadata(opts) ==
    [platform |-> opts.platform,
     python_version |-> <<opts.python_version[1], "_", opts.python_version[2]>>]

\* The response left as it is: what serve() would write without its
\* resp.update(self._response_metadata()).
WithoutMetadata(r, opts) == r

\* resp.update(self._response_metadata())
WithMetadata(r, opts) ==
    [r EXCEPT !.keys = r.keys \cup {"platform", "python_version"},
              !.platform = _response_metadata(opts).platform,
              !.python_version = _response_metadata(opts).python_version]

\* Server.update_sources
update_sources(S, sources, disk) ==
    LET paths == {sources[i].path : i \in {j \in 1..Len(sources) : sources[j].path # NoPath}}
    IN [S EXCEPT !.fswatcher = add_watched_paths(S.fswatcher, paths, disk)]

Pair(module, path) == [module |-> module, path |-> path]

\* last = {s.path: s.module for s in self.previous_sources}
LastModule(prev, path) ==
    prev[CHOOSE i \in 1..Len(prev) :
            prev[i].path = path /\ \A j \in 1..Len(prev) : prev[j].path = path => j <= i].module

\* _find_changed without its last loop: a source whose module id changed is
\* not reported at its new name.
_find_changed_without_moves(S, sources, changed_paths) ==
    LET prev == S.previous_sources
        modules == {sources[i].module : i \in 1..Len(sources)}
        omitted == SelectSeq(prev, LAMBDA s : s.module \notin modules)
    IN [ok |-> (\A i \in 1..Len(omitted) : omitted[i].path # NoPath)
               /\ (\A i \in 1..Len(sources) : sources[i].path # NoPath),
        changed |-> MapFilter(sources,
                       [s \in Range(sources) |-> Pair(s.module, s.path)],
                       [s \in Range(sources) |-> s.path # NoPath /\ s.path \in changed_paths]),
        removed |-> [i \in 1..Len(omitted) |-> Pair(omitted[i].module, omitted[i].path)]]

\* Server._find_changed: (changed, removed), or an assertion failure.
_find_changed(S, sources, changed_paths) ==
    LET prev == S.previous_sources
        changed == MapFilter(sources,
                       [s \in Range(sources) |-> Pair(s.module, s.path)],
                       [s \in Range(sources) |-> s.path # NoPath /\ s.path \in changed_paths])
        modules == {sources[i].module : i \in 1..Len(sources)}
        omitted == SelectSeq(prev, LAMBDA s : s.module \notin modules)
        removed == [i \in 1..Len(omitted) |-> Pair(omitted[i].module, omitted[i].path)]
        known == {prev[i].path : i \in 1..Len(prev)}
        moved == SelectSeq(sources,
                     LAMBDA s : s.path \in known /\ LastModule(prev, s.path) # s.module)
    IN [ok |-> (\A i \in 1..Len(omitted) : omitted[i].path # NoPath)
               /\ (\A i \in 1..Len(sources) : sources[i].path # NoPath),
        changed |-> changed \o [i \in 1..Len(moved) |-> Pair(moved[i].module, moved[i].path)],
        removed |-> removed \o [i \in 1..Len(moved) |->
                                   Pair(LastModule(prev, moved[i].path), moved[i].path)]]

\* Server.find_changed
find_changed(S, sources, disk) ==
    LET w == watcher_find_changed(S.fswatcher, disk)
    IN [S |-> [S EXCEPT !.fswatcher = w.w], r |-> _find_changed(S, sources, w.changed)]

\* Server.update_changed
update_changed(S, sources, remove, update_, disk) ==
    LET w == watcher_update_changed(S.fswatcher, remove, update_, disk)
    IN [S |-> [S EXCEPT !.fswatcher = w.w], r |-> _find_changed(S, sources, w.changed)]

\* A status that does not look at the messages.
StatusZero(messages) == 0

\* status = 1 if messages else 0
StatusOf(messages) == IF messages # <<>> THEN 1 ELSE 0

\* fine_grained_increment, once the changes are found (fc) and the manager
\* has run its update (upd).
incremented(fc, upd, sources, is_tty, opts) ==
    IF ~fc.r.ok THEN Raise(fc.S)
    ELSE Return(ResultResponse(pretty_messages(upd.messages, Len(sources), is_tty, opts),
                               <<>>, StatusOf(upd.messages)),
                [fc.S EXCEPT !.fine_grained_manager = upd.mgr, !.previous_sources = sources])

\* Server.fine_grained_increment
fine_grained_increment(S, sources, is_tty, remove, update_, disk, opts) ==
    LET fc == IF ~remove.given /\ ~update_.given
              THEN find_changed(update_sources(S, sources, disk), sources, disk)
              ELSE update_changed(S, sources, remove.list, update_.list, disk)
    IN incremented(fc, update(S.fine_grained_manager, fc.r.changed, fc.r.removed, disk),
                   sources, is_tty, opts)

\* The cache meta of the graph's modules, by path (NoData: no meta).
Metas(graph) ==
    [p \in Paths |->
        IF \E i \in 1..Len(graph) : graph[i].path = p /\ graph[i].meta # NoData
        THEN graph[CHOOSE i \in 1..Len(graph) : graph[i].path = p /\ graph[i].meta # NoData].meta
        ELSE NoData]

\* initialize_fine_grained, when the build used the cache: the cached file
\* data goes to the watcher and an update is run from it. S3 holds the new
\* manager, fc is find_changed(sources) and upd the manager's update.
initialized_from_cache(fc, upd, sources, is_tty, opts) ==
    IF ~fc.r.ok THEN Raise(fc.S)
    ELSE Return(ResultResponse(pretty_messages(upd.messages, Len(sources), is_tty, opts),
                               <<>>, StatusOf(upd.messages)),
                [fc.S EXCEPT !.fine_grained_manager = upd.mgr])

\* initialize_fine_grained, once build() has returned result; S1 holds the
\* new watcher.
initialized(S1, result, sources, is_tty, disk, plugins_now, opts) ==
    LET S2 == [S1 EXCEPT !.fine_grained_manager = FineGrainedBuildManager(result, plugins_now),
                         !.previous_sources = sources]
        S3 == [S2 EXCEPT !.fswatcher = set_file_data(S2.fswatcher, Metas(result.graph))]
        \* without the cache: find_changed() stores the initial state of the sources
        S5 == [S2 EXCEPT !.fswatcher = watcher_find_changed(S2.fswatcher, disk).w]
    IN IF result.compile_error
       THEN Return(IF result.use_stdout THEN ResultResponse(result.messages, <<>>, 2)
                   ELSE ResultResponse(<<>>, result.messages, 2), S1)
       ELSE IF result.used_cache
       THEN \* changed, removed = self.find_changed(sources); update(changed, removed)
            LET fc == find_changed(S3, sources, disk)
            IN initialized_from_cache(
                   fc, update(S3.fine_grained_manager, fc.r.changed, fc.r.removed, disk),
                   sources, is_tty, opts)
       ELSE Return(ResultResponse(pretty_messages(result.messages, Len(sources), is_tty, opts),
                                  <<>>, StatusOf(result.messages)), S5)

\* initialize_fine_grained without its assignment to self.fine_grained_manager.
initialize_forgetting_manager(S, sources, is_tty, disk, plugins_now, opts) ==
    LET o == initialized(update_sources([S EXCEPT !.fswatcher = FileSystemWatcher],
                                        sources, disk),
                         build(sources, opts, disk), sources, is_tty, disk, plugins_now, opts)
    IN [o EXCEPT !.S.fine_grained_manager = S.fine_grained_manager]

\* Server.initialize_fine_grained
initialize_fine_grained(S, sources, is_tty, disk, plugins_now, opts) ==
    initialized(update_sources([S EXCEPT !.fswatcher = FileSystemWatcher], sources, disk),
                build(sources, opts, disk), sources, is_tty, disk, plugins_now, opts)

\* Server.update_stats
update_stats(o) ==
    IF ~o.exc /\ o.S.fine_grained_manager.present
    THEN [o EXCEPT !.resp.keys = o.resp.keys \cup {"stats"}]
    ELSE o

\* Server.check
check(S, sources, is_tty, disk, plugins_now, opts) ==
    update_stats(IF ~S.fine_grained_manager.present
                 THEN initialize_fine_grained(S, sources, is_tty, disk, plugins_now, opts)
                 ELSE fine_grained_increment(S, sources, is_tty, None, None, disk, opts))

\* Server.cmd_check
cmd_check(S, files, is_tty, disk, plugins_now, opts) ==
    LET made == create_source_list(files, disk)
    IN IF ~made.ok THEN Return(ResultResponse(<<>>, made.err, 2), S)
       ELSE check(S, made.sources, is_tty, disk, plugins_now, opts)

\* The exit code of mypy.main.process_options on improper arguments.
ExitCode == 2

\* mypy.main.process_options(['-i'] + args, ...): the sources and the options
\* snapshot, or SystemExit, or InvalidSourceList.
process_options(args, disk) ==
    LET made == create_source_list(args.files, disk)
    IN IF args.target = "bad"
       THEN [exit |-> TRUE, invalid |-> FALSE, sources |-> <<>>, snapshot |-> args.flags,
             err |-> <<Line("usage", "", 0, 0, 0)>>]
       ELSE IF args.target = "module"
       THEN [exit |-> FALSE, invalid |-> FALSE, sources |-> <<BuildSource(NoPath, "a")>>,
             snapshot |-> args.flags, err |-> <<>>]
       ELSE [exit |-> FALSE, invalid |-> ~made.ok, sources |-> made.sources,
             snapshot |-> args.flags, err |-> made.err]

\* cmd_run without its comparison of __version__ with the client's version.
cmd_run_any_version(S, version, args, is_tty, disk, plugins_now, opts) ==
    LET parsed == process_options(args, disk)
    IN IF parsed.exit THEN Return(ResultResponse(<<>>, parsed.err, ExitCode), S)
       ELSE IF parsed.invalid THEN Return(ResultResponse(<<>>, parsed.err, 2), S)
       ELSE IF opts.options_snapshot # parsed.snapshot
       THEN Return(RestartResponse("configuration changed"), S)
       ELSE IF S.fine_grained_manager.present
               /\ plugins_now # S.fine_grained_manager.plugins_snapshot
       THEN Return(RestartResponse("plugins changed"), S)
       ELSE check(S, parsed.sources, is_tty, disk, plugins_now, opts)

\* Server.cmd_run
cmd_run(S, version, args, is_tty, disk, plugins_now, opts) ==
    LET parsed == process_options(args, disk)
    IN IF parsed.exit THEN Return(ResultResponse(<<>>, parsed.err, ExitCode), S)
       ELSE IF parsed.invalid THEN Return(ResultResponse(<<>>, parsed.err, 2), S)
       ELSE IF opts.options_snapshot # parsed.snapshot
       THEN Return(RestartResponse("configuration changed"), S)
       ELSE IF Version # version
       THEN Return(RestartResponse("mypy version changed"), S)
       ELSE IF S.fine_grained_manager.present
               /\ plugins_now # S.fine_grained_manager.plugins_snapshot
       THEN Return(RestartResponse("plugins changed"), S)
       ELSE check(S, parsed.sources, is_tty, disk, plugins_now, opts)

\* cmd_recheck without its test of self.fine_grained_manager.
cmd_recheck_unguarded(S, is_tty, remove, update_, disk, opts) ==
    update_stats(fine_grained_increment(S, S.previous_sources, is_tty, remove, update_,
                                        disk, opts))

\* cmd_recheck with "sources = create_source_list(added)" where the code
\* extends the sources it kept.
cmd_recheck_replacing(S, is_tty, remove, update_, disk, opts) ==
    LET made == create_source_list(update_.list, disk)
    IN IF ~S.fine_grained_manager.present
       THEN Return(ErrorResponse(<<"Command '", "recheck",
                                   "' is only valid after a 'check' command">>), S)
       ELSE update_stats(fine_grained_increment(S, made.sources, is_tty, remove, update_,
                                                disk, opts))

\* Server.cmd_recheck
cmd_recheck(S, is_tty, remove, update_, disk, opts) ==
    LET removals == Range(remove.list)
        kept == IF remove.list # <<>>
                THEN SelectSeq(S.previous_sources,
                               LAMBDA s : s.path # NoPath /\ s.path \notin removals)
                ELSE S.previous_sources
        known == {kept[i].path : i \in {j \in 1..Len(kept) : kept[j].path # NoPath}}
        added == SelectSeq(update_.list, LAMBDA p : p \notin known)
        made == create_source_list(added, disk)
        sources == IF update_.list # <<>> THEN kept \o made.sources ELSE kept
    IN IF ~S.fine_grained_manager.present
       THEN Return(ErrorResponse(<<"Command '", "recheck",
                                   "' is only valid after a 'check' command">>), S)
       ELSE IF update_.list # <<>> /\ ~made.ok
       THEN Return(ResultResponse(<<>>, made.err, 2), S)
       ELSE update_stats(fine_grained_increment(S, sources, is_tty, remove, update_, disk, opts))

\* What SuggestionEngine.suggest / suggest_callsites may give: a failure, or
\* the text it returns, as a sequence of characters.
Text(c) == Line("text", c, 0, 0, 0)
EngineResults ==
    {[failed |-> TRUE, out |-> <<>>], [failed |-> FALSE, out |-> <<>>],
     [failed |-> FALSE, out |-> <<Text("s")>>],
     [failed |-> FALSE, out |-> <<Text("s"), Text("\n")>>]}

\* Server.cmd_suggest
cmd_suggest(S, function, callsites, engine) ==
    IF ~S.fine_grained_manager.present
    THEN Return(ErrorResponse(<<"Command '", "suggest",
                                "' is only valid after a 'check' command">>), S)
    ELSE IF engine.failed
    THEN Return(ErrorResponse(<<"SuggestionFailure", function>>), S)
    ELSE LET out == IF engine.out = <<>> THEN <<Text("No suggestions"), Text("\n")>>
                    ELSE IF engine.out[Len(engine.out)] # Text("\n")
                    THEN engine.out \o <<Text("\n")>>
                    ELSE engine.out
         IN Return(Response({"out", "err", "status"}, <<>>, out, <<>>, 0, ""), S)

\* A cmd_stop that leaves the status file to the shutdown path.
cmd_stop_keeping_file(S, file_exists) == Return(EmptyResponse, S)
\* Server.cmd_stop: os.unlink(self.status_file) raises when the file is gone.
cmd_stop(S, file_exists) ==
    IF file_exists THEN Outcome(FALSE, EmptyResponse, S, TRUE) ELSE Raise(S)

\* Server.cmd_status (get_meminfo with psutil installed, no dump file)
cmd_status(S) ==
    Return(Response({"memory_rss_mib", "memory_vms_mib", "memory_maxrss_mib"},
                    <<>>, <<>>, <<>>, NoStatus, ""), S)

\* Server.cmd_hang
cmd_hang(S) == Return(EmptyResponse, S)

\* The names for which getattr(Server, 'cmd_' + command) finds a method.
Handlers == {"status", "stop", "run", "check", "recheck", "suggest", "hang"}

(* ------------------------------ requests ------------------------------- *)

FileLists == SeqsUpTo(Paths, MaxFiles)
OptLists == {None} \cup {Some(l) : l \in FileLists}

\* A request: the JSON object receive() returns. tty: whether it carries
\* is_tty and terminal_width ("absent": it does not), and the value of is_tty.
Request(has_command, is_str, name, tty) ==
    [has_command |-> has_command, is_str |-> is_str, command |-> name, tty |-> tty,
     files |-> <<>>, remove |-> None, update |-> None, version |-> Version,
     args |-> [flags |-> "F0", target |-> "files", files |-> <<>>],
     function |-> "", callsites |-> FALSE]

Cmd(name, tty) == Request(TRUE, TRUE, name, tty)

Requests ==
    {Request(FALSE, FALSE, "", "yes"), Request(TRUE, FALSE, "42", "yes")}
    \cup {Cmd(c, "yes") : c \in {"status", "hang", "stop", "inspect", "frobnicate"}}
    \cup {Cmd(c, "absent") : c \in {"status", "stop", "check"}}
    \cup {[Cmd("suggest", "yes") EXCEPT !.function = "f"]}
    \cup {[Cmd("check", t) EXCEPT !.files = l] : l \in FileLists, t \in {"yes", "no"}}
    \cup {[Cmd("recheck", "yes") EXCEPT !.remove = r, !.update = u] :
             r \in OptLists, u \in OptLists}
    \cup {[Cmd("run", "yes") EXCEPT !.args = a] :
             a \in {[flags |-> "F0", target |-> "files", files |-> l] : l \in FileLists}
                   \cup {[flags |-> "F0", target |-> t, files |-> <<>>] :
                            t \in {"module", "bad"}}
                   \cup {[flags |-> "F1", target |-> "files", files |-> <<>>]}}
    \cup {[Cmd("run", "yes") EXCEPT !.version = "v2"]}

NoRequest == Request(FALSE, FALSE, "", "absent")

(* ------------------------------- state --------------------------------- *)

VARIABLES
    pc,                    \* where serve() is
    exc,                   \* the exception propagating out of serve(), if any
    status_file,           \* whether the status file exists on disk
    unlinks,               \* how many times this server unlinked it
    command,               \* serve()'s local variable
    data,                  \* the request being handled
    resp,                  \* the response being built
    options,               \* self.options
    fine_grained_manager,  \* self.fine_grained_manager
    previous_sources,      \* self.previous_sources
    fswatcher,             \* self.fswatcher
    disk,                  \* the files the client works on
    plugins,               \* the plugins' snapshot on disk
    events,                \* changes made to disk and plugins so far
    nread,                 \* requests read
    nwrites,               \* responses written (server.write calls)
    written,               \* the last response written
    hist,                  \* the exchange before the current one
    invoked,               \* the library function under study and its arguments
    returned,              \* what it returned
    at,                    \* where run_analysis is
    worklist,              \* run_analysis's worklist (workset is its set)
    before,                \* run_analysis's block-level sets
    after

vars == <<pc, exc, status_file, unlinks, command, data, resp, options,
          fine_grained_manager, previous_sources, fswatcher, disk, plugins,
          events, nread, nwrites, written, hist, invoked, returned,
          at, worklist, before, after>>

\* The locals of run_analysis.
dataflow == <<at, worklist, before, after>>

\* What the server's loop does not touch.
aux == <<invoked, returned, dataflow>>

\* run_analysis is not running.
NoAnalysis == at = "none" /\ worklist = <<>> /\ before = <<>> /\ after = <<>>

\* What the library functions do not touch: the daemon.
daemon == <<pc, exc, status_file, unlinks, command, data, resp, options,
            fine_grained_manager, previous_sources, fswatcher, disk, plugins,
            events, nread, nwrites, written, hist>>

\* No library function is under study.
NoCall == [fn |-> "none"]

\* The attributes of the Server object that the handlers read and write.
Self == [fine_grained_manager |-> fine_grained_manager,
         previous_sources |-> previous_sources,
         fswatcher |-> fswatcher]

NoCommandYet == [set |-> FALSE, is_str |-> FALSE, name |-> ""]
IsStop(c) == c.set /\ c.is_str /\ c.name = "stop"

OptionChoices ==
    {[error_summary |-> TRUE, color_output |-> TRUE, pretty |-> FALSE,
      use_fine_grained_cache |-> FALSE, options_snapshot |-> "F0",
      platform |-> "linux", python_version |-> <<3, 7>>],
     [error_summary |-> FALSE, color_output |-> FALSE, pretty |-> TRUE,
      use_fine_grained_cache |-> TRUE, options_snapshot |-> "F0",
      platform |-> "linux", python_version |-> <<3, 7>>]}

\* The paths of the diagnostics in an output.
DiagPaths(out) ==
    MapFilter(out, [l \in Range(out) |-> l.path], [l \in Range(out) |-> l.tag = "error"])

\* What is remembered of an exchange: its number, its command, the status and
\* the diagnostics of its response, the server's attributes after it, and
\* how many changes the disk had seen.
Exchange(n, name, r, S, ev) ==
    [n |-> n, command |-> name, status |-> r.status, diags |-> DiagPaths(r.out),
     after |-> S, events |-> ev]

\* Server.__init__
ServerInit ==
    /\ pc = "start"
    /\ exc = "none"
    /\ status_file = FALSE
    /\ unlinks = 0
    /\ command = NoCommandYet
    /\ data = NoRequest
    /\ resp = EmptyResponse
    /\ options \in OptionChoices
    /\ fine_grained_manager = NoManager
    /\ previous_sources = <<>>
    /\ fswatcher = NoWatcher
    /\ disk = [p \in Paths |-> [content |-> IF p = "a.py" THEN "ok" ELSE "err", pkg |-> FALSE]]
    /\ plugins = 0
    /\ events = 0
    /\ nread = 0
    /\ nwrites = 0
    /\ written = [n |-> 0, resp |-> EmptyResponse, delivered |-> FALSE]
    /\ hist = Exchange(0, "", EmptyResponse, Self, 0)

\* The daemon is started, and nothing else is studied.
Init ==
    /\ ServerInit
    /\ invoked = NoCall
    /\ returned = NoCall
    /\ NoAnalysis

(* ----------------------------- serve() --------------------------------- *)

\* run_command with getattr(self.__class__, 'cmd_' + command) given no
\* default: a name without a method raises AttributeError.
run_command_unchecked(name, d, S, called) ==
    IF name \notin Handlers \/ d.tty = "absent" THEN Raise(S) ELSE called

\* Server.run_command: the method named by the command, called on the
\* request; called(d) is what that call gives.
run_command(name, d, S, called) ==
    IF name \notin Handlers
    THEN Return(ErrorResponse(<<"Unrecognized command '", name, "'">>), S)
    ELSE IF d.tty = "absent"
    THEN Raise(S)       \* del data['is_tty'], or method(self, **data), raises
    ELSE called

\* resp = {'error': "Daemon crashed!\n" + "".join(tb)}
CrashResponse == ErrorResponse(<<"Daemon crashed!", "\n", "traceback">>)

\* A finally clause that removes the status file whatever the command was.
AlwaysUnlink(c) == TRUE

\* if command != 'stop': os.unlink(self.status_file)
ShouldUnlink(c) == ~IsStop(c)

\* A loop that goes on without writing the response.
WriteSkipped(n, r) == UNCHANGED <<written, nwrites>>

\* server.write(json.dumps(resp).encode('utf8')) of the response to request n;
\* the write fails when the client has hung up.
Write(n, r) ==
    /\ \E delivered \in BOOLEAN : written' = [n |-> n, resp |-> r, delivered |-> delivered]
    /\ nwrites' = nwrites + 1

\* One pass of the loop from receive() to the handler's return, for the
\* request req: the response for the write that follows, or, when an
\* exception escapes the handler, the crash report written at once and the
\* exception re-raised.
Handled(req, c, o) ==
    /\ pc = "receive"
    /\ nread < MaxRequests
    /\ data' = req
    /\ nread' = nread + 1
    /\ command' = c
    /\ fine_grained_manager' = o.S.fine_grained_manager
    /\ previous_sources' = o.S.previous_sources
    /\ fswatcher' = o.S.fswatcher
    /\ status_file' = (status_file /\ ~o.unlinked)
    /\ unlinks' = unlinks + (IF o.unlinked THEN 1 ELSE 0)
    /\ hist' = Exchange(nread', IF req.is_str THEN req.command ELSE "", o.resp, o.S, events)
    /\ IF o.exc
       THEN /\ resp' = WithMetadata(CrashResponse, options)
            /\ Write(nread', resp')
            /\ exc' = "Exception"
            /\ pc' = "finally"
       ELSE /\ resp' = o.resp
            /\ pc' = "respond"
            /\ UNCHANGED <<written, nwrites, exc>>
    /\ UNCHANGED <<options, disk, plugins, events>>
    /\ UNCHANGED aux

\* with open(self.status_file, 'w') as f: json.dump(...)
ServeStart ==
    /\ pc = "start"
    /\ status_file' = TRUE
    /\ pc' = "receive"
    /\ UNCHANGED <<exc, unlinks, command, data, resp, options, fine_grained_manager,
                   previous_sources, fswatcher, disk, plugins, events, nread, nwrites,
                   written, hist>>
    /\ UNCHANGED aux

\* receive(server) raises (the connection broke, or the data is not JSON)
ReceiveFails ==
    /\ pc = "receive"
    /\ nread < MaxRequests
    /\ exc' = "OSError"
    /\ pc' = "finally"
    /\ UNCHANGED <<status_file, unlinks, command, data, resp, options, fine_grained_manager,
                   previous_sources, fswatcher, disk, plugins, events, nread, nwrites,
                   written, hist>>
    /\ UNCHANGED aux

\* if 'command' not in data
NoCommand ==
    \E req \in Requests :
        /\ ~req.has_command
        /\ Handled(req, command, Return(ErrorResponse(<<"No command found in request">>), Self))

\* if not isinstance(command, str)
NotAString ==
    \E req \in Requests :
        /\ req.has_command /\ ~req.is_str
        /\ Handled(req, [set |-> TRUE, is_str |-> FALSE, name |-> req.command],
                   Return(ErrorResponse(<<"Command is not a string">>), Self))

\* resp = self.run_command(command, data), for a request whose command is
\* a string; called is what the command's method gives on the request.
Run(req, called) ==
    /\ pc = "receive"
    /\ req.has_command /\ req.is_str
    /\ \E o \in {run_command(req.command, req, Self, called)} :
          Handled(req, [set |-> TRUE, is_str |-> TRUE, name |-> req.command], o)

Unrecognized ==
    \E req \in Requests :
        req.command \in {"inspect", "frobnicate"} /\ Run(req, Raise(Self))

CmdStatus ==
    \E req \in Requests : req.command = "status" /\ Run(req, cmd_status(Self))

CmdStop ==
    \E req \in Requests : req.command = "stop" /\ Run(req, cmd_stop(Self, status_file))

CmdRun ==
    \E req \in Requests :
        /\ req.command = "run"
        /\ Run(req, cmd_run(Self, req.version, req.args, req.tty = "yes", disk, plugins,
                            options))

CmdCheck ==
    \E req \in Requests :
        /\ req.command = "check"
        /\ Run(req, cmd_check(Self, req.files, req.tty = "yes", disk, plugins, options))

CmdRecheck ==
    \E req \in Requests :
        /\ req.command = "recheck"
        /\ Run(req, cmd_recheck(Self, req.tty = "yes", req.remove, req.update, disk, options))

CmdSuggest ==
    \E req \in Requests, engine \in EngineResults :
        /\ req.command = "suggest"
        /\ Run(req, cmd_suggest(Self, req.function, req.callsites, engine))

CmdHang ==
    \E req \in Requests : req.command = "hang" /\ Run(req, cmd_hang(Self))

\* A loop without the "except OSError: pass" around the write: a response
\* that cannot be delivered ends serve().
RespondOrRaise ==
    /\ pc = "respond"
    /\ resp' = WithMetadata(resp, options)
    /\ Write(nread, resp')
    /\ IF ~written'.delivered
       THEN pc' = "finally" /\ exc' = "OSError"
       ELSE IF IsStop(command)
       THEN pc' = "finally" /\ exc' = "SystemExit"
       ELSE pc' = "receive" /\ exc' = exc
    /\ data' = NoRequest
    /\ UNCHANGED <<status_file, unlinks, command, options, fine_grained_manager,
                   previous_sources, fswatcher, disk, plugins, events, nread, hist>>
    /\ UNCHANGED aux

\* resp.update(self._response_metadata()); server.write(...); the exit on stop
Respond ==
    /\ pc = "respond"
    /\ resp' = WithMetadata(resp, options)
    /\ Write(nread, resp')
    /\ IF IsStop(command)
       THEN pc' = "finally" /\ exc' = "SystemExit"
       ELSE pc' = "receive" /\ exc' = exc
    /\ data' = NoRequest
    /\ UNCHANGED <<status_file, unlinks, command, options, fine_grained_manager,
                   previous_sources, fswatcher, disk, plugins, events, nread, hist>>
    /\ UNCHANGED aux

\* finally: remove the status file unless the final command was stop
Finally ==
    /\ pc = "finally"
    /\ IF ShouldUnlink(command)
       THEN status_file' = FALSE /\ unlinks' = unlinks + 1
       ELSE UNCHANGED <<status_file, unlinks>>
    /\ pc' = "exited"
    /\ UNCHANGED <<exc, command, data, resp, options, fine_grained_manager,
                   previous_sources, fswatcher, disk, plugins, events, nread, nwrites,
                   written, hist>>
    /\ UNCHANGED aux

(* --------------------------- the environment --------------------------- *)

\* The client's side edits, adds or deletes a file, or moves it in or out
\* of a package, while the server waits for a request.
FsEvent ==
    /\ pc = "receive"
    /\ events < MaxFsEvents
    /\ \/ \E p \in Paths : \E c \in Contents \ {disk[p].content} :
             disk' = [disk EXCEPT ![p].content = c]
       \/ disk' = [p \in Paths |-> [disk[p] EXCEPT !.pkg = ~disk[p].pkg]]
    /\ events' = events + 1
    /\ UNCHANGED <<pc, exc, status_file, unlinks, command, data, resp, options,
                   fine_grained_manager, previous_sources, fswatcher, plugins, nread,
                   nwrites, written, hist>>
    /\ UNCHANGED aux

\* A plugin changes on disk.
PluginEvent ==
    /\ pc = "receive"
    /\ events < MaxFsEvents
    /\ plugins' = plugins + 1
    /\ events' = events + 1
    /\ UNCHANGED <<pc, exc, status_file, unlinks, command, data, resp, options,
                   fine_grained_manager, previous_sources, fswatcher, disk, nread,
                   nwrites, written, hist>>
    /\ UNCHANGED aux

Next ==
    \/ ServeStart
    \/ ReceiveFails
    \/ NoCommand
    \/ NotAString
    \/ Unrecognized
    \/ CmdStatus
    \/ CmdStop
    \/ CmdRun
    \/ CmdCheck
    \/ CmdRecheck
    \/ CmdSuggest
    \/ CmdHang
    \/ Respond
    \/ Finally
    \/ FsEvent
    \/ PluginEvent

Spec == Init /\ [][Next]_vars

(* ------------------------------ claims --------------------------------- *)

\* The step in which serve() reads a request and runs it.
Handles == nread' = nread + 1

\* A request that names its command by a string and carries is_tty and
\* terminal_width, as the client's requests do.
WellFormed(req) == req.has_command /\ req.is_str /\ req.tty # "absent"

OnlyValidAfterCheck(name) == <<"Command '", name, "' is only valid after a 'check' command">>

Initialized == fine_grained_manager.present

\* The check went through: the response carries the manager's stats.
Completed(r) == "stats" \in r.keys

\* C1: while the server is Uninitialized, a recheck and a suggest command are
\* each answered with the error that the command is only valid after a
\* 'check' command; the server's attributes are left as they were (no check
\* is performed, the server stays Uninitialized) and the loop goes on to
\* write that answer.
C1_RecheckSuggestNeedCheck ==
    [][(Handles /\ WellFormed(data') /\ data'.command \in {"recheck", "suggest"}
          /\ ~Initialized)
       => /\ pc' = "respond"
          /\ resp'.keys = {"error"}
          /\ resp'.error = OnlyValidAfterCheck(data'.command)
          /\ UNCHANGED <<fine_grained_manager, previous_sources, fswatcher>>
          /\ ~Initialized']_vars

C1_Witness ==
    /\ pc = "respond"
    /\ data.command \in {"recheck", "suggest"}
    /\ ~Initialized
    /\ resp.error = OnlyValidAfterCheck(data.command)

\* C2: an inspect command received while the server is Uninitialized is
\* answered with the error that the command is only valid after a 'check'
\* command, and the server keeps serving.
C2_InspectNeedsCheck ==
    [][(Handles /\ WellFormed(data') /\ data'.command = "inspect" /\ ~Initialized)
       => /\ pc' = "respond"
          /\ resp'.keys = {"error"}
          /\ resp'.error = OnlyValidAfterCheck("inspect")]_vars

\* C3 (as stated): the first check or run command handled while the server
\* is Uninitialized leaves the server Initialized.
C3_FirstCheckInitializes ==
    [][(Handles /\ WellFormed(data') /\ data'.command \in {"check", "run"} /\ ~Initialized)
       => Initialized']_vars

\* C3 (amended): a check or run command handled while the server is
\* Uninitialized leaves it Initialized exactly when the initial build went
\* through, and its answer then carries the build's stats and status 0 or 1
\* (a check answered with status 0 or 1 has initialized the server); an
\* answer with status 2 or a restart request leaves it Uninitialized. A
\* recheck handled while the server is Initialized is not answered with the
\* 'only valid after check' error, and once Initialized the server is never
\* Uninitialized again.
C3_CheckInitializes ==
    [][/\ (Handles /\ WellFormed(data') /\ data'.command \in {"check", "run"}
              /\ ~Initialized /\ pc' = "respond")
          => /\ Initialized' <=> Completed(resp')
             /\ Completed(resp') => resp'.status \in {0, 1}
             /\ (data'.command = "check" /\ resp'.status \in {0, 1}) => Initialized'
             /\ (resp'.status = 2 \/ "restart" \in resp'.keys) => ~Initialized'
       /\ (Handles /\ WellFormed(data') /\ data'.command = "recheck" /\ Initialized)
          => (pc' = "respond" => resp'.error # OnlyValidAfterCheck("recheck"))
       /\ Initialized => Initialized']_vars

C3_Witness ==
    /\ pc = "respond"
    /\ nread = 2
    /\ data.command = "recheck"
    /\ Initialized
    /\ "status" \in resp.keys

\* C4: the status file is written before the first request is read, and in
\* every run that ends with a stop command it has been unlinked exactly once.
C4_StatusFileUnlinkedOnce ==
    /\ (pc = "receive" /\ nread = 0 => status_file)
    /\ (nread > 0 => pc # "start")
    /\ (pc = "exited" /\ IsStop(command) => unlinks = 1)

C6_OneAtATime ==
    [][Handles
       => /\ nwrites = nread
          /\ written.n = nread
          /\ hist.n = nread
          /\ hist.after = Self
          /\ data = NoRequest]_vars

C6_Witness ==
    /\ nread = 2
    /\ pc = "respond"
    /\ hist.n = 2
    /\ written.n = 1
    /\ Initialized

\* C7: a request whose command names no handler is answered with
\* {error: "Unrecognized command '<name>'"}, one whose command is not a
\* string with {error: "Command is not a string"}; in both cases the server's
\* attributes and the status file are left as they were, and after the
\* answer is written the server waits for the next request.
C7_BadCommandAnswered ==
    [][/\ (Handles /\ data'.has_command /\ ~data'.is_str)
          => /\ pc' = "respond"
             /\ resp'.keys = {"error"}
             /\ resp'.error = <<"Command is not a string">>
             /\ UNCHANGED <<fine_grained_manager, previous_sources, fswatcher,
                            status_file, unlinks>>
       /\ (Handles /\ data'.has_command /\ data'.is_str /\ data'.command \notin Handlers)
          => /\ pc' = "respond"
             /\ resp'.keys = {"error"}
             /\ resp'.error = <<"Unrecognized command '", data'.command, "'">>
             /\ UNCHANGED <<fine_grained_manager, previous_sources, fswatcher,
                            status_file, unlinks>>
       /\ (pc = "respond" /\ pc' # pc /\ data.has_command
              /\ (~data.is_str \/ data.command \notin Handlers))
          => /\ pc' = "receive"
             /\ written'.resp.error = resp.error
             /\ UNCHANGED <<fine_grained_manager, previous_sources, fswatcher,
                            status_file, unlinks>>]_vars

C7_Witness ==
    /\ pc = "respond"
    /\ data.has_command
    /\ data.is_str
    /\ data.command = "frobnicate"
    /\ resp.error = <<"Unrecognized command '", "frobnicate", "'">>

\* C8: every response written, be it a result, an error for a malformed
\* request or a crash report, holds the keys platform and python_version,
\* platform being the options' platform and python_version the options'
\* major and minor version joined by an underscore.
C8_ResponseMetadata ==
    nwrites > 0 =>
        /\ {"platform", "python_version"} \subseteq written.resp.keys
        /\ written.resp.platform = options.platform
        /\ written.resp.python_version
              = <<options.python_version[1], "_", options.python_version[2]>>

C8_Witness ==
    /\ nwrites = 2
    /\ exc = "Exception"
    /\ "error" \in written.resp.keys
    /\ written.resp.python_version = <<3, "_", 7>>

C10_RecheckAfterCleanCheck ==
    [][(Handles /\ WellFormed(data') /\ data'.command = "recheck"
          /\ data'.remove = Some(<<>>) /\ data'.update = Some(<<>>)
          /\ hist.command = "check" /\ hist.status = 0 /\ hist.events = events)
       => /\ pc' = "respond"
          /\ resp'.status = 0
          /\ DiagPaths(resp'.out) = hist.diags
          /\ previous_sources' = previous_sources]_vars

C10_Witness ==
    /\ pc = "respond"
    /\ nread = 2
    /\ data.command = "recheck"
    /\ data.remove = Some(<<>>)
    /\ data.update = Some(<<>>)
    /\ resp.status = 0
    /\ previous_sources # <<>>
    /\ events = 0

\* process_options returned: it neither exited nor failed to find a source.
Parsed(req) ==
    ~process_options(req.args, disk).exit /\ ~process_options(req.args, disk).invalid

\* What cmd_run compares: the options parsed from the request with the
\* snapshot taken at server start, the client's version with the server's,
\* and the plugins on disk with those the manager was built with.
Differs(req) ==
    \/ req.args.flags # options.options_snapshot
    \/ req.version # Version
    \/ (Initialized /\ plugins # fine_grained_manager.plugins_snapshot)

\* The step ran check(): the answer carries the manager's stats, or it
\* carries the messages of an initial build that failed after the watcher
\* was set up.
CheckPerformed ==
    \/ Completed(resp')
    \/ /\ resp'.status = 2
       /\ resp'.out \o resp'.err # <<>>
       /\ fswatcher'.defined
       /\ ~Initialized'

\* C11 (as stated): a run command is answered with a restart request, the
\* manager, the previous sources and the watcher left as they were, whenever
\* the options, the version or the plugins differ; otherwise it performs a
\* check of the given sources.
C11_RestartOrCheck ==
    [][(Handles /\ WellFormed(data') /\ data'.command = "run")
       => /\ Differs(data')
             => /\ pc' = "respond"
                /\ resp'.keys = {"restart"}
                /\ UNCHANGED <<fine_grained_manager, previous_sources, fswatcher>>
          /\ (~Differs(data') /\ pc' = "respond") => CheckPerformed]_vars

\* C11 (amended): when process_options returns the sources and the options,
\* a run command is answered with a restart request, the manager, the
\* previous sources and the watcher left as they were, whenever the options,
\* the version or the plugins differ, and otherwise performs a check of the
\* given sources; when process_options exits or finds no source, the answer
\* carries status 2 and no stats, with no restart request and the manager,
\* the previous sources and the watcher left as they were.
C11_RestartOrCheckWhenParsed ==
    [][(Handles /\ WellFormed(data') /\ data'.command = "run")
       => /\ (Parsed(data') /\ Differs(data'))
             => /\ pc' = "respond"
                /\ resp'.keys = {"restart"}
                /\ resp'.restart \in {"configuration changed", "mypy version changed",
                                      "plugins changed"}
                /\ UNCHANGED <<fine_grained_manager, previous_sources, fswatcher>>
          /\ (Parsed(data') /\ ~Differs(data') /\ pc' = "respond")
             => /\ CheckPerformed
                /\ "restart" \notin resp'.keys
                /\ Completed(resp')
                   => previous_sources' = process_options(data'.args, disk).sources
          /\ ~Parsed(data')
             => /\ pc' = "respond"
                /\ resp'.status = 2
                /\ "restart" \notin resp'.keys
                /\ ~Completed(resp')
                /\ UNCHANGED <<fine_grained_manager, previous_sources, fswatcher>>]_vars

C11_Witness ==
    /\ pc = "respond"
    /\ data.command = "run"
    /\ Initialized
    /\ resp.keys = {"restart"}
    /\ resp.restart = "plugins changed"

\* C12: when the write of a response fails because the client has hung up,
\* the failure is ignored: the server's attributes stay as the handler left
\* them, the status file stays, no exception ends serve() (unless the
\* command was stop, which exits as it always does), and the server waits
\* for the next request.
C12_WriteFailureIgnored ==
    [][(pc = "respond" /\ nwrites' = nwrites + 1 /\ ~written'.delivered)
       => /\ UNCHANGED <<fine_grained_manager, previous_sources, fswatcher, status_file,
                         unlinks, hist, nread>>
          /\ written'.n = nread
          /\ IF IsStop(command)
             THEN pc' = "finally" /\ exc' = "SystemExit"
             ELSE pc' = "receive" /\ exc' = "none"]_vars

C12_Witness ==
    /\ pc = "respond"
    /\ nread = 2
    /\ written.n = 1
    /\ ~written.delivered
    /\ exc = "none"
    /\ Initialized
    /\ hist.command = "recheck"

\* C23: when the stop handler has run, the status file is removed before the
\* response to the stop request is written: the step in which cmd_stop
\* returns removes the file and writes nothing, the file is absent when the
\* response is written, and it stays absent, so that a client holding the
\* stop response finds no status file of this server.
C23_UnlinkBeforeStopResponse ==
    [][/\ (IsStop(command') /\ pc = "receive" /\ pc' = "respond")
          => (~status_file' /\ nwrites' = nwrites /\ unlinks' = unlinks + 1)
       /\ (IsStop(command) /\ pc = "respond")
          => (~status_file /\ nwrites' = nwrites + 1 /\ written'.n = nread
              /\ ~status_file')
       /\ (IsStop(command) /\ exc = "SystemExit") => (~status_file /\ ~status_file')]_vars

C23_Witness ==
    /\ pc = "exited"
    /\ IsStop(command)
    /\ exc = "SystemExit"
    /\ written.n = nread
    /\ written.delivered
    /\ hist.command = "stop"
    /\ ~status_file
    /\ unlinks = 1

\* The paths of a list of sources, in order.
PathsOf(sources) == [i \in 1..Len(sources) |-> sources[i].path]

\* What C24 says of a recheck step, kept(R) being the previous sources that
\* stay.
RecheckSources(kept(_)) ==
    (Handles /\ WellFormed(data') /\ data'.command = "recheck" /\ Initialized
       /\ pc' = "respond")
    => LET R == Range(data'.remove.list)
           U == data'.update.list
           added == SelectSeq(U, LAMBDA p : p \notin Range(PathsOf(kept(R))))
           unbuildable == \E i \in 1..Len(added) : disk[added[i]].content = "missing"
       IN /\ Completed(resp')
             => /\ ~unbuildable
                /\ SubSeq(previous_sources', 1, Len(kept(R))) = kept(R)
                /\ PathsOf(previous_sources') = PathsOf(kept(R)) \o added
                /\ \A p \in R \cap Range(U) : p \in Range(PathsOf(previous_sources'))
          /\ unbuildable
             => /\ resp'.status = 2
                /\ resp'.err # <<>>
                /\ previous_sources' = previous_sources
                /\ fswatcher' = fswatcher
          /\ Completed(resp') \/ unbuildable

\* C24: a successful recheck with remove list R and update list U
\* leaves as the checked sources the previous ones whose path is not in R,
\* followed by sources for the paths of U that are not among these (a path in
\* R and in U stays checked); when the sources for those paths cannot be
\* built, the answer has status 2 and the checked sources and the watcher are
\* unchanged.
C24_RecheckSourcesAsStated ==
    [][LET kept(R) == SelectSeq(previous_sources, LAMBDA src : src.path \notin R)
       IN RecheckSources(kept)]_vars

\* What holds instead: as stated, except that with a remove list that is not
\* empty the previous sources that have no path (modules given by name) are
\* dropped as well.
C24_RecheckSourcesWithPaths ==
    [][LET kept(R) == IF R = {} THEN previous_sources
                      ELSE SelectSeq(previous_sources,
                                     LAMBDA src : src.path # NoPath /\ src.path \notin R)
       IN RecheckSources(kept)]_vars

\* The step in which a check, run or recheck request is answered by an
\* increment: the new source list is compared with the previous one.
Compares ==
    /\ Handles
    /\ WellFormed(data')
    /\ data'.command \in {"check", "run", "recheck"}
    /\ Initialized
    /\ pc' = "respond"
    /\ Completed(resp')

\* What the watcher reports as changed in that step.
ChangedPaths ==
    IF data'.command = "recheck" /\ (data'.remove.given \/ data'.update.given)
    THEN Range(data'.remove.list) \cup Range(data'.update.list)
    ELSE watcher_find_changed(update_sources(Self, previous_sources', disk).fswatcher,
                              disk).changed

C28_StatusFileGone == pc = "exited" => ~status_file

(* -------------------------- message ordering --------------------------- *)

MaxMessages == 4

\* The lines an update can report: a message of a file with its line number
\* ("msg"), the context line that precedes one ("x.py: In function ..."),
\* a continuation line, which names no file, and a message that is not
\* associated with a file ("mypy: ...").
NewMessages ==
    {[kind |-> "msg", fnam |-> "x.py", line |-> 1, text |-> "m"],
     [kind |-> "msg", fnam |-> "x.py", line |-> 2, text |-> "m"],
     [kind |-> "msg", fnam |-> "y.py", line |-> 1, text |-> "m"],
     [kind |-> "msg", fnam |-> "a.py", line |-> 1, text |-> "m"],
     [kind |-> "msg", fnam |-> "b.py", line |-> 1, text |-> "m"],
     [kind |-> "context", fnam |-> "y.py", line |-> 0, text |-> "In function"],
     [kind |-> "cont", fnam |-> NoPath, line |-> 0, text |-> "c1"],
     [kind |-> "cont", fnam |-> NoPath, line |-> 0, text |-> "c2"],
     [kind |-> "mypy", fnam |-> NoPath, line |-> 0, text |-> "m"]}

\* The messages of the previous pass.
PrevMessages ==
    LET old(f, l) == [kind |-> "msg", fnam |-> f, line |-> l, text |-> "old"]
    IN {<<old("y.py", 12), old("x.py", 8)>>,
        <<old("x.py", 8), old("y.py", 12), old("x.py", 9)>>,
        <<[kind |-> "mypy", fnam |-> NoPath, line |-> 0, text |-> "old"], old("y.py", 12)>>}

\* Blocks of one line each: every line is sorted by what it names itself.
BlockStartSelf(messages, i) == i

\* Where the block of messages[i] starts: a continuation line belongs to
\* the message before it, a message to the context line of its file before it.
RECURSIVE BlockStart(_, _)
BlockStart(messages, i) ==
    IF i = 1 THEN 1
    ELSE IF \/ /\ messages[i].kind = "cont"
               /\ messages[i - 1].kind \in {"msg", "cont"}
            \/ /\ messages[i].kind = "msg"
               /\ messages[i - 1].kind = "context"
               /\ messages[i - 1].fnam = messages[i].fnam
         THEN BlockStart(messages, i - 1)
         ELSE i

\* The place of a file: files of the previous pass in the order they were
\* first seen there, then new files in the order they are first seen in this
\* pass, then what has no file.
FileRank(messages, prev, fnam) ==
    LET n == Len(prev)
        seen == {k \in 1..n : prev[k].fnam = fnam}
        known == {i \in 1..Len(messages) : messages[BlockStart(messages, i)].fnam = fnam}
        first(S) == CHOOSE k \in S : \A j \in S : k <= j
    IN IF fnam = NoPath THEN n + Len(messages) + 1
       ELSE IF seen # {} THEN first(seen)
       ELSE n + first(known)

\* The sort key of messages[i]: its block's file and the line of its
\* block's header (the message after a context line), then the order of
\* this pass.
SortKey(messages, prev, i) ==
    LET s == BlockStart(messages, i)
        header == IF /\ messages[s].kind = "context"
                     /\ s < Len(messages)
                     /\ BlockStart(messages, s + 1) = s
                  THEN s + 1
                  ELSE s
    IN <<FileRank(messages, prev, messages[s].fnam), messages[header].line, s, i>>

\* Keys compared as tuples are.
Precedes(a, b) ==
    \E k \in 1..Len(a) : a[k] < b[k] /\ \A j \in 1..(k - 1) : a[j] = b[j]

\* A stable sort that takes the second sort key for the first.
sort_messages_by_line(messages, prev) ==
    LET n == Len(messages)
        key == [i \in 1..n |-> <<SortKey(messages, prev, i)[2], SortKey(messages, prev, i)[1],
                                 SortKey(messages, prev, i)[3], i>>]
        place(i) == 1 + Cardinality({j \in 1..n : Precedes(key[j], key[i])})
    IN [k \in 1..n |-> messages[CHOOSE i \in 1..n : place(i) = k]]

\* mypy.server.update.sort_messages_preserving_file_order
sort_messages_preserving_file_order(messages, prev) ==
    LET n == Len(messages)
        key == [i \in 1..n |-> SortKey(messages, prev, i)]
        place(i) == 1 + Cardinality({j \in 1..n : Precedes(key[j], key[i])})
    IN [k \in 1..n |-> messages[CHOOSE i \in 1..n : place(i) = k]]

\* An update has produced its messages.
SortInit ==
    /\ ServerInit
    /\ options.pretty
    /\ invoked \in {[fn |-> "sort_messages_preserving_file_order", messages |-> m, prev |-> o] :
                      m \in SeqsUpTo(NewMessages, MaxMessages), o \in PrevMessages}
    /\ returned = NoCall
    /\ NoAnalysis

SortMessages ==
    /\ invoked.fn = "sort_messages_preserving_file_order"
    /\ returned = NoCall
    /\ returned' = [value |-> sort_messages_preserving_file_order(invoked.messages,
                                                                  invoked.prev)]
    /\ UNCHANGED <<invoked, daemon, dataflow>>

SortSpec == SortInit /\ [][SortMessages]_vars

\* The call of sort_messages_preserving_file_order has returned.
Sorted == invoked.fn = "sort_messages_preserving_file_order" /\ returned # NoCall

\* The first place of a line of file fnam in msgs.
FirstIn(msgs, fnam) ==
    CHOOSE k \in 1..Len(msgs) :
        msgs[k].fnam = fnam /\ \A j \in 1..(k - 1) : msgs[j].fnam # fnam

InOld(fnam) == \E k \in 1..Len(invoked.prev) : invoked.prev[k].fnam = fnam

\* The order of two files that the claim states: by first occurrence in old,
\* files not in old after them, by first occurrence in new.
FileBefore(f, g) ==
    \/ InOld(f) /\ InOld(g) /\ FirstIn(invoked.prev, f) < FirstIn(invoked.prev, g)
    \/ InOld(f) /\ ~InOld(g)
    \/ ~InOld(f) /\ ~InOld(g) /\ FirstIn(invoked.messages, f) < FirstIn(invoked.messages, g)

\* The result holds the new messages, those of different files in the order
\* of their files, and those without a file after all that have one.
GroupedByFile ==
    LET new == invoked.messages
        res == returned.value
    IN /\ Len(res) = Len(new)
       /\ \A m \in Range(new) :
              Cardinality({i \in 1..Len(res) : res[i] = m})
                  = Cardinality({i \in 1..Len(new) : new[i] = m})
       /\ \A i, j \in 1..Len(res) :
              (res[i].fnam # NoPath /\ res[j].fnam # NoPath /\ res[i].fnam # res[j].fnam)
              => (i < j <=> FileBefore(res[i].fnam, res[j].fnam))
       /\ \A i, j \in 1..Len(res) :
              (res[i].kind = "mypy" /\ res[j].fnam # NoPath) => j < i

\* new with the lines at i and i + 1 exchanged.
Exchanged(new, i) ==
    [k \in 1..Len(new) |-> IF k = i THEN new[i + 1] ELSE IF k = i + 1 THEN new[i] ELSE new[k]]

\* The lines of new stand for themselves: none continues another.
OneLineEach == \A i \in 1..Len(invoked.messages) : invoked.messages[i].kind \in {"msg", "mypy"}

\* C14 (as stated): the new messages come out grouped by file, the files that
\* occur in old in the order of their first occurrence in old, the files that
\* do not after them in the order of their first occurrence in new, and the
\* messages without a file last; the result does not depend on the order in
\* which the files occur in new (exchanging two adjacent messages of
\* different files never changes it).
C14_FileOrderAnyNewOrder ==
    Sorted =>
        /\ GroupedByFile
        /\ OneLineEach =>
              \A i \in 1..(Len(invoked.messages) - 1) :
                  LET a == invoked.messages[i]
                      b == invoked.messages[i + 1]
                  IN (a.fnam # b.fnam)
                     => sort_messages_preserving_file_order(Exchanged(invoked.messages, i),
                                                            invoked.prev) = returned.value

\* C14 (amended): as above, but the result does not depend on the order in
\* which the files that occur in old occur in new: exchanging two adjacent
\* messages of different files, one of which occurs in old, never changes it.
C14_FileOrderPreserved ==
    Sorted =>
        /\ GroupedByFile
        /\ OneLineEach =>
              \A i \in 1..(Len(invoked.messages) - 1) :
                  LET a == invoked.messages[i]
                      b == invoked.messages[i + 1]
                  IN (a.fnam # b.fnam /\ (InOld(a.fnam) \/ InOld(b.fnam)))
                     => sort_messages_preserving_file_order(Exchanged(invoked.messages, i),
                                                            invoked.prev) = returned.value

C14_Witness ==
    /\ Sorted
    /\ Len(invoked.prev) = 2
    /\ invoked.prev[1].fnam = "y.py"
    /\ invoked.prev[2].fnam = "x.py"
    /\ Len(invoked.messages) = 4
    /\ invoked.messages[1].kind = "mypy"
    /\ invoked.messages[2].fnam = "a.py"
    /\ invoked.messages[3].fnam = "x.py"
    /\ invoked.messages[4].fnam = "y.py"
    /\ returned.value = <<invoked.messages[4], invoked.messages[3], invoked.messages[2],
                          invoked.messages[1]>>

\* A multi-line diagnostic of new: an optional context line, the header of
\* the same file, and the continuation lines after it, from s to e.
Diagnostic(new, s, e) ==
    /\ s < e
    /\ \/ /\ new[s].kind = "msg"
          /\ \A j \in (s + 1)..e : new[j].kind = "cont"
       \/ /\ new[s].kind = "context"
          /\ new[s + 1].kind = "msg"
          /\ new[s + 1].fnam = new[s].fnam
          /\ \A j \in (s + 2)..e : new[j].kind = "cont"

\* C15: a multi-line diagnostic is never split: its header, the context line
\* before it and the continuation lines after it are adjacent in the result,
\* in the order they had, and the whole of it stands where its header's file
\* stands with respect to the messages of every other file.
C15_BlocksKept ==
    Sorted =>
        LET new == invoked.messages
            res == returned.value
        IN \A s, e \in 1..Len(new) :
               Diagnostic(new, s, e) =>
                   \E k \in 0..(Len(res) - (e - s + 1)) :
                       /\ \A j \in 0..(e - s) : res[k + 1 + j] = new[s + j]
                       /\ \A i \in 1..Len(res) :
                              (res[i].fnam # NoPath /\ res[i].fnam # new[s].fnam)
                              => IF FileBefore(new[s].fnam, res[i].fnam)
                                 THEN k + (e - s + 1) < i
                                 ELSE i <= k

C15_Witness ==
    /\ Sorted
    /\ invoked.prev[1].fnam = "y.py"
    /\ Len(invoked.messages) = 4
    /\ invoked.messages[1].kind = "msg" /\ invoked.messages[1].fnam = "x.py"
    /\ invoked.messages[2].kind = "cont"
    /\ invoked.messages[3].kind = "context"
    /\ invoked.messages[4].kind = "msg" /\ invoked.messages[4].fnam = "y.py"
    /\ returned.value = <<invoked.messages[3], invoked.messages[4], invoked.messages[1],
                          invoked.messages[2]>>

(* ------------------------------ dataflow ------------------------------- *)

MaxBlocks == 2
MaxOps == 2
MaxRegs == 2

\* Registers are numbered from 0, blocks are labelled from 0.
Regs == 0..(MaxRegs - 1)

\* op.dest is None
NoDest == -1

\* r1 = f(r2): the ops that visit_register_op sees, by dest and sources().
RegisterOps ==
    {[kind |-> "RegisterOp", dest |-> d, sources |-> src] :
        d \in Regs \cup {NoDest}, src \in {{}} \cup {{r} : r \in Regs}}

\* The ops that can end a block of a function of n blocks.
ControlOps(n) ==
    {[kind |-> "Return", reg |-> r] : r \in Regs}
    \cup {[kind |-> "Goto", label |-> l] : l \in 0..(n - 1)}
    \cup {[kind |-> "Branch", left |-> 0, right |-> MaxRegs - 1, true |-> t, false |-> f] :
            t \in 0..(n - 1), f \in 0..(n - 1)}
    \cup {[kind |-> "Unreachable"]}

\* The lists of at most max_blocks basic blocks analysed: block l has label
\* l, its last op is a control op, and some block ends the function.
BlockLists(max_blocks) ==
    UNION {{[l \in 0..(n - 1) |-> [label |-> l, ops |-> body[l] \o <<last[l]>>]] :
                body \in {b \in [0..(n - 1) -> SeqsUpTo(RegisterOps, MaxOps)] :
                             \A l \in 0..(n - 1) : \A k \in 0..(n - 1) :
                                 l # k => Len(b[l]) + Len(b[k]) <= MaxOps},
                last \in {t \in [0..(n - 1) -> ControlOps(n)] :
                             \E l \in 0..(n - 1) : t[l].kind \in {"Return", "Unreachable"}}} :
           n \in 1..max_blocks}

Reversed(s) == [i \in 1..Len(s) |-> s[Len(s) + 1 - i]]

\* pred_map[label] of get_cfg: prev once for each time label is among its
\* successors, in the order of the blocks.
RECURSIVE Predecessors(_, _, _)
Predecessors(succ, label, prev) ==
    IF prev \notin DOMAIN succ THEN <<>>
    ELSE [i \in 1..Len(SelectSeq(succ[prev], LAMBDA l : l = label)) |-> prev]
         \o Predecessors(succ, label, prev + 1)

\* get_cfg
get_cfg(blocks) ==
    LET last(l) == blocks[l].ops[Len(blocks[l].ops)]
        succ == [l \in DOMAIN blocks |->
                    IF last(l).kind = "Branch" THEN <<last(l).true, last(l).false>>
                    ELSE IF last(l).kind = "Goto" THEN <<last(l).label>>
                    ELSE <<>>]
    IN [succ |-> succ,
        pred |-> [l \in DOMAIN blocks |-> Predecessors(succ, l, 0)],
        exits |-> {l \in DOMAIN blocks : last(l).kind \notin {"Branch", "Goto"}}]

GenAndKill(gen, kill) == [gen |-> gen, kill |-> kill]

\* LivenessVisitor
LivenessVisitor(op) ==
    CASE op.kind = "Branch" -> GenAndKill({op.left, op.right}, {})
      [] op.kind = "Return" -> GenAndKill({op.reg}, {})
      [] op.kind = "Unreachable" -> GenAndKill({}, {})
      [] op.kind = "Goto" -> GenAndKill({}, {})
      [] op.kind = "RegisterOp" ->
            IF op.dest # NoDest THEN GenAndKill(op.sources, {op.dest})
            ELSE GenAndKill(op.sources, {})

\* MustDefinedVisitor
MustDefinedVisitor(op) ==
    IF op.kind = "RegisterOp" /\ op.dest # NoDest THEN GenAndKill({op.dest}, {})
    ELSE GenAndKill({}, {})

\* An UndefinedVisitor for which an assignment defines nothing.
UndefinedVisitor_without_kill(op) == GenAndKill({}, {})

\* UndefinedVisitor
UndefinedVisitor(op) ==
    IF op.kind = "RegisterOp" THEN GenAndKill({}, {op.dest}) ELSE GenAndKill({}, {})

\* op.accept(gen_and_kill)
accept(op, gen_and_kill) ==
    CASE gen_and_kill = "LivenessVisitor" -> LivenessVisitor(op)
      [] gen_and_kill = "MustDefinedVisitor" -> MustDefinedVisitor(op)
      [] gen_and_kill = "UndefinedVisitor" -> UndefinedVisitor(op)

\* The analyses: what each analyze_ function hands to run_analysis.
Analysis(call) ==
    CASE call.fn = "analyze_live_regs" ->
            [gen_and_kill |-> "LivenessVisitor", initial |-> {}, backward |-> TRUE,
             kind |-> "MAYBE_ANALYSIS", universe |-> {}]
      [] call.fn = "analyze_must_defined_regs" ->
            [gen_and_kill |-> "MustDefinedVisitor", initial |-> call.initial_defined,
             backward |-> FALSE, kind |-> "MUST_ANALYSIS",
             universe |-> 0..(call.num_regs - 1)]
      [] call.fn = "analyze_undefined_regs" ->
            [gen_and_kill |-> "UndefinedVisitor",
             initial |-> {reg \in 0..(Len(call.env.names) - 1) :
                             reg \notin call.initial_defined},
             backward |-> FALSE, kind |-> "MAYBE_ANALYSIS", universe |-> {}]

\* run_analysis: the gen and kill sets of a block, op by op.
RECURSIVE BlockGenAndKill(_, _, _)
BlockGenAndKill(ops, gen_and_kill, sofar) ==
    IF ops = <<>> THEN sofar
    ELSE LET o == accept(Head(ops), gen_and_kill)
         IN BlockGenAndKill(Tail(ops), gen_and_kill,
                            GenAndKill((sofar.gen \ o.kill) \cup o.gen,
                                       (sofar.kill \ o.gen) \cup o.kill))

\* block_gen and block_kill of run_analysis, as one map.
block_gen_and_kill(blocks, an) ==
    [l \in DOMAIN blocks |->
        BlockGenAndKill(IF an.backward THEN Reversed(blocks[l].ops) ELSE blocks[l].ops,
                        an.gen_and_kill, GenAndKill({}, {}))]

\* new_before of run_analysis: the join of after over the predecessors.
RECURSIVE Join(_, _, _, _)
Join(preds, aft, kind, sofar) ==
    IF preds = <<>> THEN sofar
    ELSE Join(Tail(preds), aft, kind,
              IF kind = "MAYBE_ANALYSIS" THEN sofar \cup aft[Head(preds)]
              ELSE sofar \cap aft[Head(preds)])

\* A loop that puts nothing back on the worklist.
Append_nothing(wl, succs) == wl

\* The successors a changed block puts on the worklist.
RECURSIVE Append_(_, _)
Append_(wl, succs) ==
    IF succs = <<>> THEN wl
    ELSE Append_(IF Head(succs) \in Range(wl) THEN wl ELSE Append(wl, Head(succs)),
                 Tail(succs))

\* One turn of the while loop of run_analysis.
Turn(cfg, gk, an, wl, bef, aft) ==
    LET label == wl[Len(wl)]
        rest == SubSeq(wl, 1, Len(wl) - 1)
        pred_map == IF an.backward THEN cfg.succ ELSE cfg.pred
        succ_map == IF an.backward THEN cfg.pred ELSE cfg.succ
        new_before == IF pred_map[label] # <<>>
                      THEN Join(Tail(pred_map[label]), aft, an.kind,
                                aft[Head(pred_map[label])])
                      ELSE an.initial
        new_after == (new_before \cup gk[label].gen) \ gk[label].kill
    IN [worklist |-> IF new_after # aft[label] THEN Append_(rest, succ_map[label]) ELSE rest,
        before |-> [bef EXCEPT ![label] = new_before],
        after |-> [aft EXCEPT ![label] = new_after]]

\* The sweep of one block that gives the sets of its ops: cur before the
\* op at idx in the direction of the analysis, and after it.
RECURSIVE Sweep(_, _, _, _)
Sweep(ops, gen_and_kill, idxs, cur) ==
    IF idxs = <<>> THEN <<>>
    ELSE LET o == accept(ops[Head(idxs)], gen_and_kill)
             nxt == (cur \ o.kill) \cup o.gen
         IN <<[idx |-> Head(idxs), before |-> cur, after |-> nxt]>>
            \o Sweep(ops, gen_and_kill, Tail(idxs), nxt)

\* op_before and op_after of run_analysis, exchanged for a backward
\* analysis; their keys are (label, idx), idx counting the ops from 1 here.
OpSets(blocks, an, bef) ==
    LET locations == UNION {{<<l, i>> : i \in 1..Len(blocks[l].ops)} : l \in DOMAIN blocks}
        idxs(l) == [i \in 1..Len(blocks[l].ops) |-> i]
        swept == [l \in DOMAIN blocks |->
                    Sweep(blocks[l].ops, an.gen_and_kill,
                          IF an.backward THEN Reversed(idxs(l)) ELSE idxs(l), bef[l])]
        at_(loc) == CHOOSE e \in Range(swept[loc[1]]) : e.idx = loc[2]
        op_before == [loc \in locations |-> at_(loc).before]
        op_after == [loc \in locations |-> at_(loc).after]
    IN IF an.backward THEN [before |-> op_after, after |-> op_before]
       ELSE [before |-> op_before, after |-> op_after]

\* A function's blocks are to be analysed.
AnalysisInit ==
    /\ ServerInit
    /\ options.pretty
    /\ invoked \in {[fn |-> "analyze_live_regs", blocks |-> b] : b \in BlockLists(MaxBlocks)}
    /\ returned = NoCall
    /\ at = "call"
    /\ worklist = <<>>
    /\ before = <<>>
    /\ after = <<>>

\* run_analysis up to its while loop
Begin ==
    /\ at = "call"
    /\ at' = "loop"
    /\ LET an == Analysis(invoked)
           labels == [i \in 1..Cardinality(DOMAIN invoked.blocks) |-> i - 1]
           start == IF an.kind = "MAYBE_ANALYSIS" THEN {} ELSE an.universe
       IN /\ worklist' = IF an.backward THEN labels ELSE Reversed(labels)
          /\ before' = [l \in DOMAIN invoked.blocks |-> start]
          /\ after' = [l \in DOMAIN invoked.blocks |-> start]
    /\ UNCHANGED <<invoked, returned, daemon>>

\* while worklist: ...
Iterate ==
    /\ at = "loop"
    /\ worklist # <<>>
    /\ LET turn == Turn(get_cfg(invoked.blocks),
                        block_gen_and_kill(invoked.blocks, Analysis(invoked)),
                        Analysis(invoked), worklist, before, after)
       IN /\ worklist' = turn.worklist
          /\ before' = turn.before
          /\ after' = turn.after
    /\ UNCHANGED <<at, invoked, returned, daemon>>

\* The loop is left; the sets of the ops are computed and returned.
Finish ==
    /\ at = "loop"
    /\ worklist = <<>>
    /\ at' = "done"
    /\ returned' = OpSets(invoked.blocks, Analysis(invoked), before)
    /\ UNCHANGED <<worklist, before, after, invoked, daemon>>

AnalysisNext == Begin \/ Iterate \/ Finish

AnalysisSpec == AnalysisInit /\ [][AnalysisNext]_vars

\* run_analysis, from its arguments to what it returns.
run_analysis(blocks, an) ==
    LET cfg == get_cfg(blocks)
        gk == block_gen_and_kill(blocks, an)
        labels == [i \in 1..Cardinality(DOMAIN blocks) |-> i - 1]
        start == [l \in DOMAIN blocks |->
                     IF an.kind = "MAYBE_ANALYSIS" THEN {} ELSE an.universe]
        RECURSIVE loop(_, _, _)
        loop(wl, bef, aft) ==
            IF wl = <<>> THEN bef
            ELSE LET turn == Turn(cfg, gk, an, wl, bef, aft)
                 IN loop(turn.worklist, turn.before, turn.after)
    IN OpSets(blocks, an,
              loop(IF an.backward THEN labels ELSE Reversed(labels), start, start))

\* The environment of the functions analysed: MaxRegs registers.
Environment == [names |-> [i \in 1..MaxRegs |-> i - 1]]

\* A function's blocks are to be analysed: for the registers that are live
\* (backward, MAYBE) or for those that must be defined (forward, MUST); on
\* entry no register is defined, or the first one (an argument) is.
DataflowInit ==
    /\ ServerInit
    /\ options.pretty
    /\ \E b \in BlockLists(MaxBlocks) :
          invoked \in {[fn |-> "analyze_live_regs", blocks |-> b]}
                      \cup {[fn |-> "analyze_must_defined_regs", blocks |-> b,
                             initial_defined |-> d, num_regs |-> Len(Environment.names)] :
                               d \in {{}, {0}}}
    /\ returned = NoCall
    /\ at = "call"
    /\ worklist = <<>>
    /\ before = <<>>
    /\ after = <<>>

DataflowSpec == DataflowInit /\ [][AnalysisNext]_vars

\* The registers an op reads, and those it writes.
Reads(op) ==
    CASE op.kind = "RegisterOp" -> op.sources
      [] op.kind = "Branch" -> {op.left, op.right}
      [] op.kind = "Return" -> {op.reg}
      [] OTHER -> {}

Writes(op) == IF op.kind = "RegisterOp" /\ op.dest # NoDest THEN {op.dest} ELSE {}

\* The locations control can reach next from the op at loc.
Following(blocks, loc) ==
    LET op == blocks[loc[1]].ops[loc[2]]
    IN IF loc[2] < Len(blocks[loc[1]].ops) THEN {<<loc[1], loc[2] + 1>>}
       ELSE CASE op.kind = "Branch" -> {<<op.true, 1>>, <<op.false, 1>>}
              [] op.kind = "Goto" -> {<<op.label, 1>>}
              [] OTHER -> {}

\* The locations from which some path reads r before it writes r, the op
\* at the location included: the least set closed under "reads r, or does
\* not write r and is followed by a location of the set".
RECURSIVE ReadBeforeWritten(_, _, _)
ReadBeforeWritten(blocks, r, found) ==
    LET locations == UNION {{<<l, i>> : i \in 1..Len(blocks[l].ops)} : l \in DOMAIN blocks}
        more == {loc \in locations :
                    \/ r \in Reads(blocks[loc[1]].ops[loc[2]])
                    \/ /\ r \notin Writes(blocks[loc[1]].ops[loc[2]])
                       /\ Following(blocks, loc) \cap found # {}}
    IN IF more = found THEN found ELSE ReadBeforeWritten(blocks, r, more)

\* analyze_live_regs has returned.
LiveRegsReturned == invoked.fn = "analyze_live_regs" /\ at = "done"

\* C16: analyze_live_regs has r in the 'after' set of an op exactly when on
\* some path of the control-flow graph that starts just after the op, r is
\* read before it is written; for every op of every block.
C16_LiveAfter ==
    LiveRegsReturned =>
        \A loc \in DOMAIN returned.after : \A r \in Regs :
            r \in returned.after[loc]
            <=> Following(invoked.blocks, loc) \cap ReadBeforeWritten(invoked.blocks, r, {}) # {}

\* The join of run_analysis, of a set of sets that is not empty.
Joined(sets, kind) ==
    IF kind = "MAYBE_ANALYSIS" THEN UNION sets
    ELSE {r \in UNION sets : \A x \in sets : r \in x}

\* Reprocessing any block changes nothing: its set at entry is the join of
\* its predecessors' sets, or the initial set when it has none, and a turn
\* of the loop on it leaves the sets as they are and the worklist empty.
FixedPoint ==
    LET an == Analysis(invoked)
        cfg == get_cfg(invoked.blocks)
        pred_map == IF an.backward THEN cfg.succ ELSE cfg.pred
        gk == block_gen_and_kill(invoked.blocks, an)
    IN \A label \in DOMAIN invoked.blocks :
          LET turn == Turn(cfg, gk, an, <<label>>, before, after)
          IN /\ before[label] = IF pred_map[label] = <<>> THEN an.initial
                                ELSE Joined({after[p] : p \in Range(pred_map[label])}, an.kind)
             /\ turn.before = before
             /\ turn.after = after
             /\ turn.worklist = <<>>

\* What is left to do in the loop of run_analysis: the room the sets have
\* to move in (upwards for MAYBE, downwards for MUST), then the worklist.
Remaining(wl, aft) ==
    LET RECURSIVE room(_)
        room(labels) ==
            IF labels = {} THEN 0
            ELSE LET l == CHOOSE x \in labels : TRUE
                 IN room(labels \ {l})
                    + Cardinality(IF Analysis(invoked).kind = "MAYBE_ANALYSIS"
                                  THEN Regs \ aft[l] ELSE aft[l])
    IN room(DOMAIN aft) * (Cardinality(DOMAIN aft) + 1) + Len(wl)

\* C26: for every CFG with an exit, the worklist loop of run_analysis
\* terminates (each turn of the loop leaves strictly less to do, and an
\* empty worklist ends it), and when it stops the block-level sets are a
\* fixed point: reprocessing any block would change nothing.
C26_TerminatesAtFixedPoint ==
    [][/\ (at = "call" /\ at' # at) => get_cfg(invoked.blocks).exits # {}
       /\ (at = "loop" /\ worklist # <<>> /\ worklist' # worklist)
          => (at' = "loop" /\ Remaining(worklist', after') < Remaining(worklist, after))
       /\ (at = "loop" /\ worklist = <<>>) => FixedPoint
       /\ (at = "loop" /\ worklist = <<>> /\ at' # at)
          => (at' = "done" /\ before' = before /\ after' = after)]_vars

\* The liveness analysis of a function whose first block loops on itself
\* has stopped, after that block was processed again: at its end (where the
\* backward analysis enters it) it has what its second pass found, r1, and
\* what the exit block needs, r0.
C26_Witness ==
    /\ at = "done"
    /\ worklist = <<>>
    /\ invoked.fn = "analyze_live_regs"
    /\ invoked.blocks = <<>>
           @@ (0 :> [label |-> 0,
                     ops |-> <<[kind |-> "RegisterOp", dest |-> 0, sources |-> {1}],
                               [kind |-> "Branch", left |-> 0, right |-> MaxRegs - 1,
                                true |-> 0, false |-> 1]>>])
           @@ (1 :> [label |-> 1, ops |-> <<[kind |-> "Return", reg |-> 0]>>])
    /\ before[0] = {0, 1}
    /\ after[0] = {1}
    /\ after[1] = {0}
    /\ FixedPoint

\* C27: the per-op sets that run_analysis returns agree with the
\* block-level solution across block boundaries: in a forward analysis the
\* 'before' set of the first op of a block with predecessors is the join of
\* the 'after' sets of the last ops of its predecessors, and in a backward
\* analysis the 'after' set of the last op of a block with successors is the
\* join of the 'before' sets of the first ops of its successors.
C27_BoundariesAgree ==
    at = "done" =>
        LET an == Analysis(invoked)
            cfg == get_cfg(invoked.blocks)
            first(l) == <<l, 1>>
            last(l) == <<l, Len(invoked.blocks[l].ops)>>
        IN \A l \in DOMAIN invoked.blocks :
              IF an.backward
              THEN cfg.succ[l] # <<>>
                   => returned.after[last(l)]
                        = Joined({returned.before[first(x)] : x \in Range(cfg.succ[l])},
                                 an.kind)
              ELSE cfg.pred[l] # <<>>
                   => returned.before[first(l)]
                        = Joined({returned.after[last(x)] : x \in Range(cfg.pred[l])},
                                 an.kind)

\* The same, of the forward analyses only.
BoundariesAgreeForward == Analysis(invoked).backward \/ C27_BoundariesAgree

\* C30: for the same blocks, CFG and defined-on-entry set, and num_regs the
\* number of registers of the environment, the must-defined set and the
\* maybe-undefined set of every op location, 'before' and 'after', are
\* complements within the set of all registers: every register is in
\* exactly one of the two.
C30_MustDefinedComplementsUndefined ==
    (at = "done" /\ invoked.fn = "analyze_must_defined_regs")
    => LET undefined == run_analysis(invoked.blocks,
                            Analysis([fn |-> "analyze_undefined_regs",
                                      blocks |-> invoked.blocks,
                                      initial_defined |-> invoked.initial_defined,
                                      env |-> Environment]))
       IN /\ returned = run_analysis(invoked.blocks, Analysis(invoked))
          /\ DOMAIN undefined.before = DOMAIN returned.before
          /\ DOMAIN undefined.after = DOMAIN returned.after
          /\ \A loc \in DOMAIN returned.before : \A r \in Regs :
                /\ r \in returned.before[loc] <=> r \notin undefined.before[loc]
                /\ r \in returned.after[loc] <=> r \notin undefined.after[loc]

\* Both analyses have run on a function whose second block is reached from
\* the first, which assigns r1, and from itself: r0, an argument, and r1 are
\* defined at its end, none is undefined there.
C30_Witness ==
    /\ at = "done"
    /\ invoked.fn = "analyze_must_defined_regs"
    /\ invoked.initial_defined = {0}
    /\ Len(invoked.blocks[0].ops) = 2
    /\ invoked.blocks[0].ops[1].dest = 1
    /\ invoked.blocks[0].ops[2] = [kind |-> "Branch", left |-> 0, right |-> MaxRegs - 1,
                                    true |-> 1, false |-> 1]
    /\ returned.before[<<0, 1>>] = {0}
    /\ returned.after[<<1, 1>>] = {0, 1}
    /\ run_analysis(invoked.blocks,
                    Analysis([fn |-> "analyze_undefined_regs", blocks |-> invoked.blocks,
                              initial_defined |-> invoked.initial_defined,
                              env |-> Environment])).before[<<0, 1>>] = {1}

(* ------------------------------ subtypes ------------------------------- *)

MaxTupleLen == 2

\* The RTypes compared: primitives by their registered names, RVoid,
\* instances of two classes, tuples and unions of simple types.
RTypes ==
    LET prim(n) == [class |-> "RPrimitive", name |-> n]
        prims == {prim(n) : n \in {"builtins.object", "builtins.int", "short_int",
                                   "builtins.bool", "builtins.str", "builtins.tuple"}}
        void == [class |-> "RVoid", name |-> "void"]
        insts == {[class |-> "RInstance", name |-> c] : c \in {"A", "B"}}
        elems == {prim("builtins.int"), prim("builtins.bool"), prim("builtins.str"),
                  prim("short_int"), void}
        items == {prim("builtins.int"), prim("builtins.bool"), prim("builtins.object"),
                  prim("builtins.str"), void}
    IN prims \cup {void} \cup insts
       \cup {[class |-> "RTuple", types |-> t] : t \in SeqsUpTo(elems, MaxTupleLen)}
       \cup {[class |-> "RUnion", items |-> <<a, b>>] : a \in items, b \in items}

\* An mro that lists a class and its direct base only.
mro_direct_base(c) ==
    IF c = "C" THEN <<"C", "B">> ELSE IF c = "B" THEN <<"B", "A">> ELSE <<c>>

\* class_ir.mro: B is a subclass of A, and C a subclass of B.
mro(c) ==
    IF c = "C" THEN <<"C", "B", "A">> ELSE IF c = "B" THEN <<"B", "A">> ELSE <<c>>

RECURSIVE is_subtype(_, _)

\* SubtypeVisitor.visit_rtuple without the comparison of the lengths.
visit_rtuple_zipped(left, right) ==
    IF right.class = "RPrimitive" /\ right.name = "builtins.tuple" THEN TRUE
    ELSE IF right.class = "RTuple"
    THEN \A i \in 1..Len(left.types) :
             i <= Len(right.types) => is_subtype(left.types[i], right.types[i])
    ELSE FALSE

\* SubtypeVisitor.visit_rtuple
visit_rtuple(left, right) ==
    IF right.class = "RPrimitive" /\ right.name = "builtins.tuple" THEN TRUE
    ELSE IF right.class = "RTuple"
    THEN /\ Len(right.types) = Len(left.types)
         /\ \A i \in 1..Len(left.types) : is_subtype(left.types[i], right.types[i])
    ELSE FALSE

\* is_subtype, with the other methods of SubtypeVisitor
is_subtype(left, right) ==
    IF right.class = "RPrimitive" /\ right.name = "builtins.object" THEN TRUE
    ELSE IF right.class = "RUnion"
    THEN IF left.class = "RUnion"
         THEN \A i \in 1..Len(left.items) :
                  \E j \in 1..Len(right.items) : is_subtype(left.items[i], right.items[j])
         ELSE \E j \in 1..Len(right.items) : is_subtype(left, right.items[j])
    ELSE CASE left.class = "RInstance" ->
                 right.class = "RInstance" /\ right.name \in Range(mro(left.name))
           [] left.class = "RUnion" ->
                 \A i \in 1..Len(left.items) : is_subtype(left.items[i], right)
           [] left.class = "RPrimitive" ->
                 IF left.name = "builtins.bool" /\ right = [class |-> "RPrimitive",
                                                            name |-> "builtins.int"]
                 THEN TRUE
                 ELSE IF left.name = "short_int" /\ right = [class |-> "RPrimitive",
                                                             name |-> "builtins.int"]
                 THEN TRUE
                 ELSE left = right
           [] left.class = "RTuple" -> visit_rtuple(left, right)
           [] left.class = "RVoid" -> right.class = "RVoid"

\* Two types are to be compared.
SubtypeInit ==
    /\ ServerInit
    /\ options.pretty
    /\ LET types == RTypes \cup {[class |-> "RInstance", name |-> "C"]}
       IN invoked \in {[fn |-> "is_subtype", left |-> l, right |-> r] :
                          l \in types, r \in types}
    /\ returned = NoCall
    /\ NoAnalysis

IsSubtype ==
    /\ invoked.fn = "is_subtype"
    /\ returned = NoCall
    /\ returned' = [value |-> is_subtype(invoked.left, invoked.right)]
    /\ UNCHANGED <<invoked, daemon, dataflow>>

SubtypeSpec == SubtypeInit /\ [][IsSubtype]_vars

\* is_subtype has returned.
Compared == invoked.fn = "is_subtype" /\ returned # NoCall

\* C18: is_subtype(RVoid, right) is true exactly when right is RVoid, for
\* every right, the object primitive and the unions included.
C18_VoidOnlyOfItself ==
    (Compared /\ invoked.left.class = "RVoid")
    => (returned.value <=> invoked.right.class = "RVoid")

\* C19: for a left that is an RTuple, is_subtype is true when right is the
\* tuple primitive, and when right is an RTuple it is true exactly when the
\* two have the same length and each element of left is a subtype of the
\* corresponding element of right: (int, bool) is a subtype of (int, int)
\* and of the tuple primitive, and not of (str, int).
C19_Tuples ==
    (Compared /\ invoked.left.class = "RTuple")
    => LET left == invoked.left
           right == invoked.right
           int == [class |-> "RPrimitive", name |-> "builtins.int"]
           bool == [class |-> "RPrimitive", name |-> "builtins.bool"]
           str == [class |-> "RPrimitive", name |-> "builtins.str"]
       IN /\ right = [class |-> "RPrimitive", name |-> "builtins.tuple"] => returned.value
          /\ right.class = "RTuple"
             => (returned.value
                 <=> /\ Len(left.types) = Len(right.types)
                     /\ \A i \in 1..Len(left.types) :
                            is_subtype(left.types[i], right.types[i]))
          /\ (left.types = <<int, bool>> /\ right.class = "RTuple"
                 /\ right.types = <<int, int>>) => returned.value
          /\ (left.types = <<int, bool>> /\ right.class = "RTuple"
                 /\ right.types = <<str, int>>) => ~returned.value

C19_Witness ==
    /\ Compared
    /\ invoked.left.class = "RTuple"
    /\ invoked.right.class = "RTuple"
    /\ Len(invoked.left.types) = 2
    /\ Len(invoked.right.types) = 2
    /\ invoked.left.types # invoked.right.types
    /\ returned.value

\* C29: is_subtype is transitive: for all RTypes x, y, z built from the
\* primitives, RVoid, RTuple, RUnion and RInstance of classes whose MROs are
\* closed under ancestors, is_subtype(x, y) and is_subtype(y, z) imply
\* is_subtype(x, z).
C29_Transitive ==
    (Compared /\ returned.value)
    => \A z \in RTypes \cup {[class |-> "RInstance", name |-> "C"]} :
          is_subtype(invoked.right, z) => is_subtype(invoked.left, z)

\* C has been found a subtype of B, which is a subtype of A.
C29_Witness ==
    /\ Compared
    /\ returned.value
    /\ invoked.left = [class |-> "RInstance", name |-> "C"]
    /\ invoked.right = [class |-> "RInstance", name |-> "B"]
    /\ is_subtype(invoked.right, [class |-> "RInstance", name |-> "A"])
    /\ is_subtype(invoked.left, [class |-> "RInstance", name |-> "A"])

\* ---------------------------------------------------------------------
\* Serialization of the IR (mypyc/ops.py)
\* ---------------------------------------------------------------------

MaxArgs == 1

\* JSON null: the class_name of a function outside a class, and a missing
\* traceback_name.
Null == "None"

\* RType.serialize of each class: an RPrimitive, an RInstance and RVoid
\* become a JSON string (the name), an RTuple and an RUnion a JSON object
\* with a '.class' key and the list of the serialized components.
RECURSIVE serialize_type(_)
serialize_type(t) ==
    CASE t.class = "RTuple" ->
           [json |-> "dict", class |-> "RTuple",
            types |-> [i \in 1..Len(t.types) |-> serialize_type(t.types[i])]]
      [] t.class = "RUnion" ->
           [json |-> "dict", class |-> "RUnion",
            types |-> [i \in 1..Len(t.items) |-> serialize_type(t.items[i])]]
      [] OTHER -> [json |-> "str", str |-> t.name]

\* deserialize_type(jsondata, ctx). A string is looked up among the classes of
\* ctx first, then among the primitives, then compared with "void"; any other
\* string fails the assertion. An object is dispatched on '.class'. An
\* exception raised for a component is raised for the whole.
RECURSIVE deserialize_type(_, _)
\* deserialize_type that takes every object for an RTuple.
deserialize_type_any_class(jsondata, ctx) ==
    IF jsondata.json = "str"
    THEN IF jsondata.str \in ctx.classes
         THEN [class |-> "RInstance", name |-> jsondata.str]
         ELSE IF jsondata.str = "void" THEN [class |-> "RVoid", name |-> "void"]
         ELSE [class |-> "RPrimitive", name |-> jsondata.str]
    ELSE [class |-> "RTuple",
          types |-> [i \in 1..Len(jsondata.types) |-> deserialize_type(jsondata.types[i], ctx)]]
deserialize_type(jsondata, ctx) ==
    LET components == [i \in 1..Len(jsondata.types) |-> deserialize_type(jsondata.types[i], ctx)]
        raising == {i \in 1..Len(jsondata.types) : components[i].class = "raise"}
        first == CHOOSE i \in raising : \A j \in raising : i <= j
    IN IF jsondata.json = "str"
       THEN IF jsondata.str \in ctx.classes
            THEN [class |-> "RInstance", name |-> jsondata.str]
            ELSE IF jsondata.str \in {"builtins.object", "builtins.int", "short_int",
                                  "builtins.float", "builtins.bool", "builtins.None",
                                  "builtins.list", "builtins.dict", "builtins.set",
                                  "builtins.str", "builtins.tuple"}
            THEN [class |-> "RPrimitive", name |-> jsondata.str]
            ELSE IF jsondata.str = "void"
            THEN [class |-> "RVoid", name |-> "void"]
            ELSE [class |-> "raise", exc |-> "AssertionError",
                  message |-> <<"Can't find class", jsondata.str>>]
       ELSE IF jsondata.class \in {"RTuple", "RUnion"}
       THEN IF raising # {}
            THEN components[first]
            ELSE IF jsondata.class = "RTuple"
            THEN [class |-> "RTuple", types |-> components]
            ELSE [class |-> "RUnion", items |-> components]
       ELSE [class |-> "raise", exc |-> "NotImplementedError",
             message |-> <<"unexpected .class", jsondata.class>>]

\* FuncDecl.serialize, with FuncSignature.serialize and RuntimeArg.serialize.
FuncDecl_serialize(decl) ==
    [name |-> decl.name,
     class_name |-> decl.class_name,
     module_name |-> decl.module_name,
     sig |-> [args |-> [i \in 1..Len(decl.sig.args) |->
                           [name |-> decl.sig.args[i].name,
                            type |-> serialize_type(decl.sig.args[i].type),
                            kind |-> decl.sig.args[i].kind]],
              ret_type |-> serialize_type(decl.sig.ret_type)],
     kind |-> decl.kind,
     is_prop_setter |-> decl.is_prop_setter,
     is_prop_getter |-> decl.is_prop_getter]

\* FuncDecl.deserialize with the kind left at its default, FUNC_NORMAL.
FuncDecl_deserialize_default_kind(jsondata, ctx) ==
    [name |-> jsondata.name,
     class_name |-> jsondata.class_name,
     module_name |-> jsondata.module_name,
     sig |-> [args |-> [i \in 1..Len(jsondata.sig.args) |->
                           [name |-> jsondata.sig.args[i].name,
                            type |-> deserialize_type(jsondata.sig.args[i].type, ctx),
                            kind |-> jsondata.sig.args[i].kind]],
              ret_type |-> deserialize_type(jsondata.sig.ret_type, ctx)],
     kind |-> 0,
     is_prop_setter |-> jsondata.is_prop_setter,
     is_prop_getter |-> jsondata.is_prop_getter]
\* FuncDecl.deserialize, with FuncSignature.deserialize and
\* RuntimeArg.deserialize.
FuncDecl_deserialize(jsondata, ctx) ==
    [name |-> jsondata.name,
     class_name |-> jsondata.class_name,
     module_name |-> jsondata.module_name,
     sig |-> [args |-> [i \in 1..Len(jsondata.sig.args) |->
                           [name |-> jsondata.sig.args[i].name,
                            type |-> deserialize_type(jsondata.sig.args[i].type, ctx),
                            kind |-> jsondata.sig.args[i].kind]],
              ret_type |-> deserialize_type(jsondata.sig.ret_type, ctx)],
     kind |-> jsondata.kind,
     is_prop_setter |-> jsondata.is_prop_setter,
     is_prop_getter |-> jsondata.is_prop_getter]

\* FuncIR.serialize: the blocks and the environment are not included.
FuncIR_serialize(fn) ==
    [decl |-> FuncDecl_serialize(fn.decl),
     line |-> fn.line,
     traceback_name |-> fn.traceback_name]

\* FuncIR.deserialize: a FuncIR with no blocks and a new Environment().
FuncIR_deserialize(jsondata, ctx) ==
    [decl |-> FuncDecl_deserialize(jsondata.decl, ctx),
     blocks |-> <<>>,
     env |-> <<>>,
     line |-> jsondata.line,
     traceback_name |-> jsondata.traceback_name]

\* The functions serialized: a function f of module m, outside a class or a
\* method, static method, class method or property of class A, with up to
\* max_args arguments, any return type, and either no body or a body of one
\* block over the registers r0 and r1 of its environment.
FuncIRs(max_args) ==
    LET int == [class |-> "RPrimitive", name |-> "builtins.int"]
        a == [class |-> "RInstance", name |-> "A"]
        RuntimeArgs == {[name |-> "x", type |-> t, kind |-> k] :
                           t \in {int, a, [class |-> "RTuple", types |-> <<int, a>>]},
                           k \in {0, 1}}
        FuncDecls == {[name |-> "f", class_name |-> c, module_name |-> "m",
                       sig |-> [args |-> args, ret_type |-> r],
                       kind |-> k[1], is_prop_setter |-> k[2], is_prop_getter |-> k[3]] :
                         c \in {Null, "A"},
                         args \in SeqsUpTo(RuntimeArgs, max_args),
                         r \in RTypes,
                         k \in {<<0, FALSE, FALSE>>, <<1, FALSE, FALSE>>,
                                <<2, FALSE, FALSE>>, <<0, TRUE, FALSE>>,
                                <<0, FALSE, TRUE>>}}
        Bodies == {[blocks |-> <<>>, env |-> <<>>],
                   [blocks |-> <<[label |-> 0,
                                  ops |-> <<[kind |-> "Assign", dest |-> 1, src |-> 0],
                                            [kind |-> "Return", reg |-> 1]>>]>>,
                    env |-> <<"r0", "r1">>]}
    IN {[decl |-> d, blocks |-> b.blocks, env |-> b.env,
         line |-> l, traceback_name |-> n] :
           d \in FuncDecls, b \in Bodies, l \in {-1, 3}, n \in {Null, "f"}}

\* The types serialized on their own: those of RTypes, and tuples and unions
\* with an instance, a tuple or a union inside.
SerializedTypes ==
    LET int == [class |-> "RPrimitive", name |-> "builtins.int"]
        a == [class |-> "RInstance", name |-> "A"]
        b == [class |-> "RInstance", name |-> "B"]
        pair == [class |-> "RTuple", types |-> <<int, a>>]
    IN RTypes \cup {pair,
                    [class |-> "RTuple", types |-> <<pair, b>>],
                    [class |-> "RUnion", items |-> <<a, b>>],
                    [class |-> "RUnion", items |-> <<pair, [class |-> "RVoid", name |-> "void"]>>],
                    [class |-> "RTuple", types |-> <<[class |-> "RUnion", items |-> <<a, int>>]>>]}

\* JSON objects whose '.class' is neither RTuple nor RUnion, on their own and
\* as a component of a serialized tuple.
UnexpectedClasses ==
    LET other == {[json |-> "dict", class |-> c, types |-> <<>>] :
                     c \in {"RInstance", "RStruct", "rtuple"}}
    IN other \cup {[json |-> "dict", class |-> "RTuple",
                    types |-> <<[json |-> "str", str |-> "builtins.int"], o>>] : o \in other}

\* The deserialization maps list the classes A and B.
SerializeInit ==
    /\ ServerInit
    /\ options.pretty
    /\ invoked \in {[fn |-> "FuncIR.deserialize", ir |-> f, ctx |-> [classes |-> {"A", "B"}]] :
                       f \in FuncIRs(MaxArgs)}
                   \cup {[fn |-> "deserialize_type", type |-> t,
                          ctx |-> [classes |-> {"A", "B"}]] : t \in SerializedTypes}
                   \cup {[fn |-> "deserialize_type", jsondata |-> d,
                          ctx |-> [classes |-> {"A", "B"}]] : d \in UnexpectedClasses}
    /\ returned = NoCall
    /\ NoAnalysis

\* FuncIR.deserialize(fn.serialize(), ctx)
Deserialize ==
    /\ invoked.fn = "FuncIR.deserialize"
    /\ returned = NoCall
    /\ returned' = [value |-> FuncIR_deserialize(FuncIR_serialize(invoked.ir), invoked.ctx)]
    /\ UNCHANGED <<invoked, daemon, dataflow>>

\* deserialize_type(t.serialize(), ctx), or deserialize_type(data, ctx) for
\* data that no type serializes to; what was deserialized is kept with the
\* outcome.
DeserializeType ==
    /\ invoked.fn = "deserialize_type"
    /\ returned = NoCall
    /\ LET given == IF "type" \in DOMAIN invoked THEN serialize_type(invoked.type)
                    ELSE invoked.jsondata
       IN returned' = [jsondata |-> given, value |-> deserialize_type(given, invoked.ctx)]
    /\ UNCHANGED <<invoked, daemon, dataflow>>

SerializeSpec == SerializeInit /\ [][Deserialize \/ DeserializeType]_vars

\* The round trip has returned.
Deserialized == invoked.fn = "FuncIR.deserialize" /\ returned # NoCall

\* C20 as stated: the deserialized FuncIR equals the one serialized, in its
\* declaration and signature, its blocks and their order, and its registers
\* and their numbering.
C20_RoundTripEqual ==
    Deserialized
    => /\ returned.value.decl = invoked.ir.decl
       /\ returned.value.blocks = invoked.ir.blocks
       /\ returned.value.env = invoked.ir.env

\* C20: serializing a FuncIR and deserializing the result yields a FuncIR
\* with the same declaration and signature, the same line and the same
\* traceback name; the blocks and the registers are not serialized, and the
\* result has no blocks and an empty environment.
C20_RoundTripKeepsDeclaration ==
    Deserialized
    => /\ returned.value.decl = invoked.ir.decl
       /\ returned.value.line = invoked.ir.line
       /\ returned.value.traceback_name = invoked.ir.traceback_name
       /\ returned.value.blocks = <<>>
       /\ returned.value.env = <<>>

C20_Witness ==
    /\ Deserialized
    /\ invoked.ir.blocks # <<>>
    /\ invoked.ir.decl.class_name = "A"
    /\ invoked.ir.decl.kind = 1
    /\ Len(invoked.ir.decl.sig.args) = 1
    /\ invoked.ir.decl.sig.args[1].type.class = "RTuple"
    /\ invoked.ir.decl.sig.ret_type.class = "RUnion"
    /\ returned.value.decl = invoked.ir.decl

\* deserialize_type has returned or raised.
TypeDeserialized == invoked.fn = "deserialize_type" /\ returned # NoCall

\* C21: for every RType t built from the primitives, RVoid, instances of
\* classes of the maps, and tuples and unions of such types,
\* deserialize_type(t.serialize(), maps) equals t; a primitive serializes as
\* its name, RVoid as "void", an instance as the name of its class, a tuple
\* and a union as an object with '.class' RTuple or RUnion; an object with any
\* other '.class' is rejected with 'unexpected .class <x>'.
C21_TypeRoundTrip ==
    TypeDeserialized
    => IF "type" \in DOMAIN invoked
       THEN LET t == invoked.type
            IN /\ returned.value = t
               /\ t.class \in {"RPrimitive", "RVoid", "RInstance"}
                  => returned.jsondata = [json |-> "str", str |-> t.name]
               /\ t.class = "RVoid" => returned.jsondata.str = "void"
               /\ t.class \in {"RTuple", "RUnion"}
                  => /\ returned.jsondata.json = "dict"
                     /\ returned.jsondata.class = t.class
       ELSE /\ returned.value.class = "raise"
            /\ returned.value.exc = "NotImplementedError"
            /\ returned.value.message[1] = "unexpected .class"
            /\ returned.value.message[2] \in {"RInstance", "RStruct", "rtuple"}
            /\ \/ returned.value.message[2] = invoked.jsondata.class
               \/ /\ invoked.jsondata.class = "RTuple"
                  /\ returned.value.message[2] = invoked.jsondata.types[2].class

C21_Witness ==
    /\ TypeDeserialized
    /\ "type" \in DOMAIN invoked
    /\ invoked.type.class = "RUnion"
    /\ invoked.type.items[1].class = "RTuple"
    /\ invoked.type.items[1].types[2].class = "RInstance"
    /\ returned.value = invoked.type

\* ---------------------------------------------------------------------
\* Reference-count insertion (mypyc/refcount.py, section 4.6)
\* ---------------------------------------------------------------------

\* op.stolen(): Return steals the register it returns, Assign its source,
\* any other op nothing.
stolen(op) ==
    CASE op.kind = "Return" -> {op.reg}
      [] op.kind = "Assign" -> {op.src}
      [] OTHER -> {}

\* insert_ref_count_opcodes(fn), given the live registers before and after
\* each op. After an op come the decrefs of its sources that are not live
\* after it, and of its result if that is not live after it. An op that
\* overwrites a register that is live before it has the old value moved to
\* the temporary register MaxRegs first and dropped from there after the op.
\* On each edge from a Goto or a Branch come the decrefs of the registers
\* that are live before the jump and not live at the start of the target.
insert_ref_count_opcodes(blocks, live) ==
    LET tmp == MaxRegs
        DecRef(r) == [kind |-> "DecRef", src |-> r]
        RECURSIVE DecRefs(_)
        DecRefs(rs) == IF rs = {} THEN <<>>
                       ELSE LET r == CHOOSE x \in rs : \A y \in rs : x <= y
                            IN <<DecRef(r)>> \o DecRefs(rs \ {r})
        transform_op(l, i) ==
            LET op == blocks[l].ops[i]
                pre_live == live.before[<<l, i>>]
                post_live == live.after[<<l, i>>]
                overwrites == op.dest # NoDest /\ op.dest \in pre_live
            IN IF op.kind # "RegisterOp" THEN <<op>>
               ELSE (IF overwrites
                     THEN <<[kind |-> "Assign", dest |-> tmp, src |-> op.dest]>>
                     ELSE <<>>)
                    \o <<op>>
                    \o DecRefs((op.sources \ post_live) \ {op.dest})
                    \o (IF op.dest # NoDest /\ op.dest \notin post_live
                        THEN <<DecRef(op.dest)>> ELSE <<>>)
                    \o (IF overwrites THEN <<DecRef(tmp)>> ELSE <<>>)
        RECURSIVE transform_block(_, _)
        transform_block(l, i) ==
            IF i > Len(blocks[l].ops) THEN <<>>
            ELSE transform_op(l, i) \o transform_block(l, i + 1)
        succ == get_cfg(blocks).succ
    IN [blocks |-> [l \in DOMAIN blocks |-> [label |-> l, ops |-> transform_block(l, 1)]],
        edges |-> [e \in {<<l, t>> : l \in DOMAIN blocks, t \in DOMAIN blocks} |->
                      IF e[2] \in Range(succ[e[1]])
                      THEN live.before[<<e[1], Len(blocks[e[1]].ops)>>] \ live.before[<<e[2], 1>>]
                      ELSE {}]]

\* A function is to be transformed: any list of blocks in which no register
\* is read before it is written on a path from the entry (the registers are
\* locals, all of a refcounted type; none is an argument).
RefcountInit ==
    /\ ServerInit
    /\ options.pretty
    /\ invoked \in {[fn |-> "analyze_live_regs", caller |-> "insert_ref_count_opcodes",
                     blocks |-> b] :
                       b \in {f \in BlockLists(MaxBlocks) :
                                 \A r \in Regs : <<0, 1>> \notin ReadBeforeWritten(f, r, {})}}
    /\ returned = NoCall
    /\ at = "call"
    /\ worklist = <<>>
    /\ before = <<>>
    /\ after = <<>>

\* analyze_live_regs has returned to insert_ref_count_opcodes, which inserts
\* the ops.
Insert ==
    /\ at = "done"
    /\ invoked.caller = "insert_ref_count_opcodes"
    /\ at' = "inserted"
    /\ returned' = insert_ref_count_opcodes(invoked.blocks, returned)
    /\ UNCHANGED <<invoked, worklist, before, after, daemon>>

RefcountSpec == RefcountInit /\ [][AnalysisNext \/ Insert]_vars

\* What becomes of the owned references when control is at loc of the
\* transformed function fn and the registers of the set owned hold an owned
\* reference each: the set of the next (location, owned) pairs, or a fault.
\* A reference is released twice when a DecRef or a stealing op finds its
\* register without an owned reference; it is never released when its
\* register is overwritten, or when the function returns while another
\* register still holds one.
Release(fn, loc, owned) ==
    LET ops == fn.blocks[loc[1]].ops
        op == ops[loc[2]]
        next == <<loc[1], loc[2] + 1>>
        to(t) == IF fn.edges[<<loc[1], t>>] \subseteq owned
                 THEN [loc |-> <<t, 1>>, owned |-> owned \ fn.edges[<<loc[1], t>>]]
                 ELSE [fault |-> "released twice"]
    IN CASE op.kind = "DecRef" ->
              IF op.src \in owned THEN {[loc |-> next, owned |-> owned \ {op.src}]}
              ELSE {[fault |-> "released twice"]}
         [] op.kind = "Assign" ->
              IF op.src \notin owned THEN {[fault |-> "released twice"]}
              ELSE IF op.dest \in owned THEN {[fault |-> "never released"]}
              ELSE {[loc |-> next, owned |-> (owned \ {op.src}) \cup {op.dest}]}
         [] op.kind = "RegisterOp" ->
              IF op.dest = NoDest THEN {[loc |-> next, owned |-> owned]}
              ELSE IF op.dest \in owned THEN {[fault |-> "never released"]}
              ELSE {[loc |-> next, owned |-> owned \cup {op.dest}]}
         [] op.kind = "Return" ->
              IF op.reg \notin owned THEN {[fault |-> "released twice"]}
              ELSE IF owned # {op.reg} THEN {[fault |-> "never released"]}
              ELSE {}
         [] op.kind = "Goto" -> {to(op.label)}
         [] op.kind = "Branch" -> {to(op.true), to(op.false)}
         [] OTHER -> {}

\* All that the paths from the entry of fn come to, by Release.
RECURSIVE Outcomes(_, _)
Outcomes(fn, found) ==
    LET more == found \cup UNION {Release(fn, s.loc, s.owned) :
                                    s \in {x \in found : "loc" \in DOMAIN x}}
    IN IF more = found THEN found ELSE Outcomes(fn, more)

\* insert_ref_count_opcodes has returned.
Inserted == invoked.fn = "analyze_live_regs" /\ at = "inserted"

\* C17: in the function that reference-count insertion returns, on every
\* path from the entry each owned reference is released exactly once, by
\* the one op that steals it or by one DecRef: none is released twice and
\* none is left unreleased at a Return or lost by an overwrite.
C17_ReleasedOnce ==
    Inserted
    => \A s \in Outcomes(returned, {[loc |-> <<0, 1>>, owned |-> {}]}) :
           "fault" \notin DOMAIN s

\* ---------------------------------------------------------------------
\* Constant folding (mypy/constant_fold.py)
\* ---------------------------------------------------------------------

\* Expressions: literals, names (True, False, a final variable of the
\* current module, one of another module, one that is not final), unary
\* expressions, binary expressions of two literals or names, and arithmetic
\* of such a binary expression with an int literal. "/" and "@" are
\* operators that constant_fold_binary_int_op does not know.
Expressions(cur_mod_id) ==
    LET IntValues == {-7, -1, 0, 2, 3, 5, 7}
        Operators == {"+", "-", "*", "//", "%", "&", "|", "^", "<<", ">>", "**", "/", "@"}
        ints == {[kind |-> "IntExpr", value |-> v] : v \in IntValues}
        names == {[kind |-> "NameExpr", name |-> "True"], [kind |-> "NameExpr", name |-> "False"]}
                 \cup {[kind |-> "NameExpr", name |-> "x",
                        node |-> [is_final |-> f, module |-> m, final_value |-> 3]] :
                           f \in BOOLEAN, m \in {cur_mod_id, "other"}}
        others == {[kind |-> "StrExpr", value |-> <<"a">>], [kind |-> "FloatExpr", value |-> 1]}
        leaves == ints \cup names \cup others
        unary == {[kind |-> "UnaryExpr", op |-> o, expr |-> e] :
                     o \in {"-", "~", "+", "not"}, e \in leaves}
        binary == {[kind |-> "OpExpr", op |-> o, left |-> l, right |-> r] :
                      o \in Operators, l \in leaves, r \in leaves}
        small == {[kind |-> "OpExpr", op |-> o, left |-> l, right |-> r] :
                     o \in Operators, l \in ints, r \in ints}
        arithmetic == {"+", "-", "*", "//", "%"}
        nested == {[kind |-> "OpExpr", op |-> o, left |-> l, right |-> r] :
                      o \in arithmetic, l \in {[kind |-> "IntExpr", value |-> v] : v \in {-7, 3}},
                      r \in small}
                  \cup {[kind |-> "OpExpr", op |-> o, left |-> l, right |-> r] :
                           o \in arithmetic, l \in small,
                           r \in {[kind |-> "IntExpr", value |-> v] : v \in {0, 2}}}
    IN leaves \cup unary \cup binary \cup nested

\* constant_fold_binary_int_op with the division of C, which rounds towards
\* zero.
constant_fold_binary_int_op_truncating(op, left, right) ==
    LET abs(x) == IF x < 0 THEN -x ELSE x
        sign == IF (left < 0) # (right < 0) THEN -1 ELSE 1
    IN CASE op = "//" /\ right # 0 -> [type |-> "int", value |-> sign * (abs(left) \div abs(right))]
         [] op = "+" -> [type |-> "int", value |-> left + right]
         [] op = "*" -> [type |-> "int", value |-> left * right]
         [] OTHER -> [type |-> "None"]
\* constant_fold_binary_int_op(op, left, right): the value, or None. The
\* ints of Python are unbounded and their bitwise operators act on the
\* two's complement; here the operands are below 2^23 and the bitwise
\* operators are computed on 24 bits.
constant_fold_binary_int_op(op, left, right) ==
    LET int(v) == [type |-> "int", value |-> v]
        floordiv(a, b) == IF b > 0 THEN a \div b ELSE (-a) \div (-b)
        RECURSIVE bits(_, _, _, _)
        bits(o, a, b, n) ==
            IF n = 0 THEN 0
            ELSE (CASE o = "&" -> IF a % 2 = 1 /\ b % 2 = 1 THEN 1 ELSE 0
                    [] o = "|" -> IF a % 2 = 1 \/ b % 2 = 1 THEN 1 ELSE 0
                    [] o = "^" -> IF a % 2 # b % 2 THEN 1 ELSE 0)
                 + 2 * bits(o, a \div 2, b \div 2, n - 1)
        RECURSIVE pow(_, _)
        pow(x, n) == IF n = 0 THEN 1 ELSE x * pow(x, n - 1)
        bitwise(o) == LET u == bits(o, left % (2^24), right % (2^24), 24)
                      IN IF u >= 2^23 THEN u - 2^24 ELSE u
    IN CASE op = "+" -> int(left + right)
         [] op = "-" -> int(left - right)
         [] op = "*" -> int(left * right)
         [] op = "//" -> IF right # 0 THEN int(floordiv(left, right)) ELSE [type |-> "None"]
         [] op = "%" -> IF right # 0 THEN int(left - right * floordiv(left, right))
                        ELSE [type |-> "None"]
         [] op \in {"&", "|", "^"} -> int(bitwise(op))
         [] op = "<<" -> IF right >= 0 THEN int(left * pow(2, right)) ELSE [type |-> "None"]
         [] op = ">>" -> IF right >= 0 THEN int(left \div pow(2, right)) ELSE [type |-> "None"]
         [] op = "**" -> IF right >= 0 THEN int(pow(left, right)) ELSE [type |-> "None"]
         [] OTHER -> [type |-> "None"]

\* constant_fold_expr(expr, cur_mod_id), with constant_fold_unary_int_op and
\* constant_fold_binary_str_op. A bool is an int for isinstance: True is 1.
RECURSIVE constant_fold_expr(_, _)
constant_fold_expr(expr, cur_mod_id) ==
    LET is_int(v) == v.type \in {"int", "bool"}
        as_int(v) == IF v.type = "bool" THEN (IF v.value THEN 1 ELSE 0) ELSE v.value
        left == constant_fold_expr(expr.left, cur_mod_id)
        right == constant_fold_expr(expr.right, cur_mod_id)
        value == constant_fold_expr(expr.expr, cur_mod_id)
    IN CASE expr.kind = "IntExpr" -> [type |-> "int", value |-> expr.value]
         [] expr.kind = "StrExpr" -> [type |-> "str", value |-> expr.value]
         [] expr.kind = "FloatExpr" -> [type |-> "float", value |-> expr.value]
         [] expr.kind = "NameExpr" ->
              IF expr.name = "True" THEN [type |-> "bool", value |-> TRUE]
              ELSE IF expr.name = "False" THEN [type |-> "bool", value |-> FALSE]
              ELSE IF expr.node.is_final /\ expr.node.module = cur_mod_id
              THEN [type |-> "int", value |-> expr.node.final_value]
              ELSE [type |-> "None"]
         [] expr.kind = "OpExpr" ->
              IF is_int(left) /\ is_int(right)
              THEN constant_fold_binary_int_op(expr.op, as_int(left), as_int(right))
              ELSE IF left.type = "str" /\ right.type = "str" /\ expr.op = "+"
              THEN [type |-> "str", value |-> left.value \o right.value]
              ELSE [type |-> "None"]
         [] expr.kind = "UnaryExpr" ->
              IF is_int(value)
              THEN CASE expr.op = "-" -> [type |-> "int", value |-> -as_int(value)]
                     [] expr.op = "~" -> [type |-> "int", value |-> -as_int(value) - 1]
                     [] expr.op = "+" -> [type |-> "int", value |-> as_int(value)]
                     [] OTHER -> [type |-> "None"]
              ELSE [type |-> "None"]

\* An expression of module m is to be folded.
FoldInit ==
    /\ ServerInit
    /\ options.pretty
    /\ invoked \in {[fn |-> "constant_fold_expr", expr |-> e, cur_mod_id |-> "m"] :
                       e \in Expressions("m")}
    /\ returned = NoCall
    /\ NoAnalysis

\* constant_fold_expr returns.
Fold ==
    /\ invoked.fn = "constant_fold_expr"
    /\ returned = NoCall
    /\ returned' = constant_fold_expr(invoked.expr, invoked.cur_mod_id)
    /\ UNCHANGED <<invoked, daemon, dataflow>>

FoldSpec == FoldInit /\ [][Fold]_vars

\* constant_fold_expr has returned.
Folded == invoked.fn = "constant_fold_expr" /\ returned # NoCall

\* C22: a binary expression of two int literals folds to the integer that
\* Python computes: the sum, difference and product; for // the floor of the
\* quotient and for % the remainder that goes with it (7 // 2 = 3, -7 // 2 =
\* -4); the shifts and the power for a right operand that is not negative;
\* &, | and ^ related as the bits are. It is not folded exactly when the
\* operator is // or % and the right operand is zero, the operator is <<, >>
\* or ** and the right operand is negative, or the operator is unknown. An
\* expression with an operand that is not folded is not folded, and
\* 3 + 5 * 2 folds to 13.
C22_IntFolding ==
    (Folded /\ invoked.expr.kind = "OpExpr")
    => LET e == invoked.expr
           literals == e.left.kind = "IntExpr" /\ e.right.kind = "IntExpr"
           a == e.left.value
           b == e.right.value
           v == returned.value
           undefined == \/ e.op \in {"//", "%"} /\ b = 0
                        \/ e.op \in {"<<", ">>", "**"} /\ b < 0
                        \/ e.op \notin {"+", "-", "*", "//", "%", "&", "|", "^", "<<", ">>", "**"}
           other(o) == constant_fold_binary_int_op(o, a, b).value
           RECURSIVE times(_, _)
           times(x, n) == IF n = 0 THEN 1 ELSE x * times(x, n - 1)
       IN /\ literals =>
               /\ returned.type = "None" <=> undefined
               /\ ~undefined => returned.type = "int"
               /\ (~undefined /\ e.op = "+") => v = a + b
               /\ (~undefined /\ e.op = "-") => v + b = a
               /\ (~undefined /\ e.op = "*") => v = a * b
               /\ (~undefined /\ e.op = "//") =>
                     IF b > 0 THEN v * b <= a /\ a < (v + 1) * b
                     ELSE v * b >= a /\ a > (v + 1) * b
               /\ (~undefined /\ e.op = "%") =>
                     /\ IF b > 0 THEN 0 <= v /\ v < b ELSE b < v /\ v <= 0
                     /\ a = other("//") * b + v
               /\ (~undefined /\ e.op = "<<") => v = a * times(2, b)
               /\ (~undefined /\ e.op = ">>") =>
                     v * times(2, b) <= a /\ a < (v + 1) * times(2, b)
               /\ (~undefined /\ e.op = "**") => v = times(a, b)
               /\ (e.op = "&") => /\ other("|") + v = a + b
                                  /\ (a >= 0 /\ b >= 0) => (0 <= v /\ v <= a /\ v <= b)
                                  /\ a = -1 => v = b
                                  /\ a = b => v = a
               /\ (e.op = "|") => /\ a = 0 => v = b
                                  /\ a = -1 => v = -1
                                  /\ a = b => v = a
               /\ (e.op = "^") => /\ v = other("|") - other("&")
                                  /\ a = b => v = 0
               /\ (e.op = "//" /\ a = 7 /\ b = 2) => v = 3
               /\ (e.op = "//" /\ a = -7 /\ b = 2) => v = -4
          /\ constant_fold_expr(e.left, invoked.cur_mod_id).type = "None"
                => returned.type = "None"
          /\ constant_fold_expr(e.right, invoked.cur_mod_id).type = "None"
                => returned.type = "None"
          /\ (e.op = "+" /\ e.left = [kind |-> "IntExpr", value |-> 3]
                /\ e.right = [kind |-> "OpExpr", op |-> "*",
                              left |-> [kind |-> "IntExpr", value |-> 5],
                              right |-> [kind |-> "IntExpr", value |-> 2]])
                => (returned.type = "int" /\ v = 13)

C22_Witness ==
    /\ Folded
    /\ invoked.expr.kind = "OpExpr"
    /\ invoked.expr.op = "//"
    /\ invoked.expr.left = [kind |-> "IntExpr", value |-> -7]
    /\ invoked.expr.right = [kind |-> "IntExpr", value |-> 2]
    /\ returned = [type |-> "int", value |-> -4]

====
